---- MODULE Spec2Model ----
(***************************************************************************)
(* Overlay VFS of Fluorine-Manager: FuseConnector (fuseconnector.cpp) and  *)
(* the mo2-vfs-helper (vfs/vfs_helper_main.cpp).                           *)
(*                                                                         *)
(* Physical directories (base game data dir, mod dirs, overwrite, staging) *)
(* are maps from relative paths to entries; the published VfsTree is a map *)
(* from relative paths to nodes that carry their physical source.          *)
(***************************************************************************)
EXTENDS Naturals, Sequences, FiniteSets, TLC

(* ------------------------------ bounds -------------------------------- *)

\* number of mod directories that exist on disk
NMods == 2
\* longest extra-file map handed to the connector
MaxExtras == 2
\* kernel write-type requests served per session in the lifecycle model
MaxOps == 2

(* ------------------------------ paths --------------------------------- *)

\* mount-relative paths: a root file, a root entry "d" and a file below it
Paths == {<<"a">>, <<"d">>, <<"d", "b">>}

Ancestors(p) == {SubSeq(p, 1, k) : k \in 1..(Len(p) - 1)}

IsUnder(p, q) == q \in Ancestors(p)

\* entries of a physical directory: "none", "dir", or the content of a file
IsFile(e) == e \notin {"none", "dir"}

EmptyFS == [p \in Paths |-> "none"]

WellFormedFS(f) ==
  \A p \in Paths : f[p] # "none" => \A q \in Ancestors(p) : f[q] = "dir"

\* every directory content over Paths whose files all hold content c
AllFS(c) == {f \in [Paths -> {"none", "dir", c}] : WellFormedFS(f)}

ModIds == 1..NMods

ModTok == <<"M1", "M2", "M3", "M4">>

(* ------------------------------ VfsTree ------------------------------- *)

NoSrc == [root |-> "", idx |-> 0, path |-> <<>>]

NoNode == [kind |-> "none", src |-> NoSrc]

DirNode == [kind |-> "dir", src |-> NoSrc]

Leaf(root, idx, p) == [kind |-> "file", src |-> [root |-> root, idx |-> idx, path |-> p]]

EmptyTree == [p \in Paths |-> NoNode]

\* scanDataDir: the catalog records kind (and size), not content
ScanDataDir(f) == [p \in Paths |-> IF IsFile(f[p]) THEN "file" ELSE f[p]]

\* one layer walked onto the tree: a file replaces whatever is at its path
\* (and shadows a subtree), a directory displaces a file at its path
Overlay(t, f, root, idx) ==
  [p \in Paths |->
     IF IsFile(f[p]) THEN Leaf(root, idx, p)
     ELSE IF f[p] = "dir" THEN DirNode
     ELSE IF \E q \in Ancestors(p) : IsFile(f[q]) THEN NoNode
     ELSE t[p]]

RECURSIVE OverlayMods(_, _, _)
OverlayMods(t, mods, mfs) ==
  IF mods = <<>> THEN t
  ELSE OverlayMods(Overlay(t, mfs[Head(mods)], "mod", Head(mods)), Tail(mods), mfs)

\* buildDataDirVfs(baseFileCache, dataDir, mods, overwriteDir)
BuildDataDirVfs(cache, mods, mfs, ov) ==
  Overlay(OverlayMods(Overlay(EmptyTree, cache, "base", 0), mods, mfs),
          ov, "overwrite", 0)

\* one extra file: leaf at rel, intermediate directories created as needed
InjectOne(t, e) ==
  [p \in Paths |->
     IF p = e.rel THEN Leaf("ext", 0, <<e.real>>)
     ELSE IF p \in Ancestors(e.rel) THEN DirNode
     ELSE IF IsUnder(p, e.rel) THEN NoNode
     ELSE t[p]]

RECURSIVE InjectExtraFiles(_, _)
InjectExtraFiles(t, extras) ==
  IF extras = <<>> THEN t
  ELSE InjectExtraFiles(InjectOne(t, Head(extras)), Tail(extras))

(* ---------------------------- flushStaging ---------------------------- *)

\* outcome of moving one staged file: fs::rename succeeds, fs::rename fails
\* and fs::copy_file succeeds, or both fail
IoOutcomes == {"rename", "copy", "fail"}

\* outcomes are drawn for the staged regular files only
IoChoices(st) ==
  {io \in [Paths -> IoOutcomes] : \A p \in Paths : ~IsFile(st[p]) => io[p] = "rename"}

\* the destination cannot take the staged entry: a regular file sits at an
\* ancestor of dest, or dest exists with the other kind
DestBlocked(st, ov, p) ==
  \/ \E q \in Ancestors(p) : IsFile(ov[q])
  \/ IsFile(st[p]) /\ ov[p] = "dir"
  \/ st[p] = "dir" /\ IsFile(ov[p])

\* the staged regular file at p reaches overwrite / rel
Moved(st, ov, io, p) ==
  IsFile(st[p]) /\ ~DestBlocked(st, ov, p) /\ io[p] # "fail"

\* a loop that skipped the staged directories
PromoteFilesOnly(st, ov, io) ==
  [p \in Paths |-> IF Moved(st, ov, io, p) THEN st[p] ELSE ov[p]]

\* what the loop over the staging directory leaves in the overwrite directory
PromoteInto(st, ov, io) ==
  [p \in Paths |->
     IF Moved(st, ov, io, p) THEN st[p]
     ELSE IF st[p] = "dir" /\ ~DestBlocked(st, ov, p) THEN "dir"
     ELSE ov[p]]

\* a flush that left the staging directory as it found it
StagingKept(st) == [exists |-> TRUE, fs |-> st]

\* what fs::remove_all(staging) leaves of the staging directory
StagingAfterFlush(st) == [exists |-> FALSE, fs |-> EmptyFS]

\* flushStaging: nothing when the staging directory does not exist; else the
\* loop over its entries, then fs::remove_all(staging)
FlushStaging(exists, st, ov, io) ==
  IF ~exists THEN [ov |-> ov, staging |-> [exists |-> FALSE, fs |-> st]]
  ELSE [ov |-> PromoteInto(st, ov, io), staging |-> StagingAfterFlush(st)]

\* a flush whose destination root was the data directory
FlushWritesIntoDataDir(b, r) == [base |-> r.ov, ov |-> r.ov, st |-> r.staging.fs]

\* the directories flushStaging writes: dest is overwrite / rel, and the
\* staging directory is removed; the data directory is not among them
FlushWrites(b, r) == [base |-> b, ov |-> r.ov, st |-> r.staging.fs]

\* the promotion met no I/O error
NoIoError(st, ov, io) ==
  \A p \in Paths : /\ st[p] # "none" => ~DestBlocked(st, ov, p)
                   /\ IsFile(st[p]) => io[p] # "fail"

(* ------------------------------ state --------------------------------- *)

VARIABLES
  target,            \* what the mount point is: "clean", "stale" (stat gives
                     \* ENOTCONN), "listed" (a live mount in /proc/mounts), "fuse" (ours)
  flatpak,           \* isFlatpak()
  baseFS,            \* the game data directory on disk
  modFS,             \* the mod directories on disk
  overwriteFS,       \* the overwrite directory on disk
  stagingFS,         \* <parent-of-overwrite>/VFS_staging on disk
  stagingExists,
  m_mounted,
  m_lastMods,
  m_extraVfsFiles,
  m_baseFileCache, m_cachedDataDirPath,
  m_backingFd,       \* TRUE when the pre-mount handle is open
  m_session,         \* TRUE when a FUSE session exists in this process
  m_stagingDir,      \* the directory m_stagingDir is in ("" while it is not set)
  m_overwriteDir,    \* the directory m_overwriteDir is in ("" while it is not set)
  m_helperProcess,   \* TRUE when the helper process exists
  g_fuseMountPoint,  \* TRUE when the crash-cleanup buffer holds the mount point
  cfgFile,           \* fluorine/vfs.cfg as last written by writeVfsConfig
  h_config,          \* the helper's HelperConfig
  h_baseFileCache,   \* the helper's baseFileCache
  tree,              \* context->tree, the published VfsTree
  newTree,           \* the replacement tree of a rebuild or flush in progress
  lockW,             \* tree_mutex is held exclusively
  mpc,               \* where the lifecycle thread is
  hdl,               \* the kernel handler in flight: pc, op, path, tree seen at entry
  handles,           \* open file handles: fh -> descriptor
  ops,               \* kernel requests served so far
  unlinked,          \* base/mod files unlinked through the mount in this session
  ev,                \* the last lifecycle call and what the environment did in it
  hp,                \* the mo2-vfs-helper process: where main() is, its stdout, its exit
  ext,               \* destinations outside the mount, and m_externalSymlinks
  inodes,            \* context->inodes, the InodeTable
  wire,              \* a config handed to writeVfsConfig, the file, what readConfig got
  side,              \* what the NXM handler and the Wine prefix code work on
  mapping            \* the mapping set handed to updateMapping, and where it went

vars == <<target, flatpak, baseFS, modFS, overwriteFS, stagingFS, stagingExists,
          m_mounted, m_lastMods, m_extraVfsFiles, m_baseFileCache, m_cachedDataDirPath, m_backingFd,
          m_session, m_stagingDir, m_overwriteDir, m_helperProcess, g_fuseMountPoint, cfgFile,
          h_config, h_baseFileCache, tree, newTree, lockW, mpc, hdl, handles, ops,
          unlinked, ev, hp, ext, inodes, wire, side,
          mapping>>

\* what the overlay lifecycle and the kernel handlers leave alone
auxVars == <<hp, inodes, wire, side, mapping>>

\* the overlay itself: everything but the helper process, the external
\* links, the inode table and the config on the wire
coreVarsButEv ==
  <<target, flatpak, baseFS, modFS, overwriteFS, stagingFS, stagingExists, m_mounted,
    m_lastMods, m_extraVfsFiles, m_baseFileCache, m_cachedDataDirPath, m_backingFd, m_session, m_stagingDir, m_overwriteDir,
    m_helperProcess, g_fuseMountPoint, cfgFile, h_config, h_baseFileCache, tree,
    newTree, lockW, mpc, hdl, handles, ops, unlinked>>

coreVars == <<coreVarsButEv, ev>>

diskVars == <<baseFS, modFS, overwriteFS, stagingFS, stagingExists>>

helperVars == <<cfgFile, h_config, h_baseFileCache>>

(* ------------------------------ inputs -------------------------------- *)

RECURSIVE SeqsUpTo(_, _)
SeqsUpTo(S, n) ==
  IF n = 0 THEN {<<>>}
  ELSE LET shorter == SeqsUpTo(S, n - 1)
       IN shorter \cup {Append(q, x) : q \in shorter, x \in S}

NoDup(q) == \A i, j \in 1..Len(q) : i # j => q[i] # q[j]

\* ordered mod lists (buildModsFromMapping keeps each source once)
ModLists == {q \in SeqsUpTo(ModIds, NMods) : NoDup(q)}

\* the real source paths of extra files; the i-th entry of a map names the i-th
ExtraTok == <<"x1", "x2", "x3", "x4">>

\* extra-file maps: (mount-relative path, real source path) entries
ExtraLists ==
  {[i \in 1..Len(q) |-> [rel |-> q[i], real |-> ExtraTok[i]]] : q \in SeqsUpTo(Paths, MaxExtras)}

NoConfig == [mods |-> <<>>, extras |-> <<>>]

NoEvent == [op |-> "none", res |-> "", dir |-> "", stale |-> FALSE, cleared |-> FALSE,
            fail |-> "", staged |-> FALSE, ioerr |-> FALSE]

(* ----------------------------- file handles --------------------------- *)

MaxHandles == 1

Closed == [open |-> FALSE, loc |-> NoSrc, data |-> "", wr |-> FALSE]

\* a descriptor: loc is the physical file it is attached to; a descriptor
\* whose file has been unlinked keeps the file's data itself
Fd(loc, wr) == [open |-> TRUE, loc |-> loc, data |-> "", wr |-> wr]

Detached(data, wr) == [open |-> TRUE, loc |-> NoSrc, data |-> data, wr |-> wr]

Src(root, idx, p) == [root |-> root, idx |-> idx, path |-> p]

\* the content at a physical source path
ReadSrc(src, b, m, ov, st) ==
  CASE src.root = "base" -> b[src.path]
    [] src.root = "mod" -> m[src.idx][src.path]
    [] src.root = "overwrite" -> ov[src.path]
    [] src.root = "staging" -> st[src.path]
    [] src.root = "ext" -> src.path[1]
    [] OTHER -> "none"

\* read(fh): the data of the file the descriptor is open on
ReadFd(h, b, m, ov, st) ==
  IF h.loc = NoSrc THEN h.data ELSE ReadSrc(h.loc, b, m, ov, st)

\* a flush that invalidated the open descriptors
FdClosedByFlush(h, st, ov, io) == Closed

\* the descriptors after flushStaging: a renamed staging file takes its
\* descriptors with it, a copied or left-behind one is unlinked by the
\* removal of the staging directory, a replaced overwrite file is unlinked
FdAfterFlush(h, st, ov, io) ==
  IF ~h.open \/ h.loc = NoSrc THEN h
  ELSE IF h.loc.root = "staging" THEN
    IF Moved(st, ov, io, h.loc.path) /\ io[h.loc.path] = "rename"
    THEN [h EXCEPT !.loc = Src("overwrite", 0, h.loc.path)]
    ELSE Detached(st[h.loc.path], h.wr)
  ELSE IF h.loc.root = "overwrite" /\ Moved(st, ov, io, h.loc.path)
          /\ io[h.loc.path] = "rename"
    THEN Detached(ov[h.loc.path], h.wr)
  ELSE h

(* --------------------------- tree publication ------------------------- *)

\* a build that left the extra files out
MountTreeNoInject(cache, mods, mfs, ov, extras) == BuildDataDirVfs(cache, mods, mfs, ov)

\* the tree mount() and rebuild() build, and the helper at start and on
\* "rebuild": buildDataDirVfs, then injectExtraFiles
MountTree(cache, mods, mfs, ov, extras) ==
  InjectExtraFiles(BuildDataDirVfs(cache, mods, mfs, ov), extras)

\* the tree flushStagingLive builds in the connector
LiveFlushTree(cache, mods, mfs, ov, extras) ==
  BuildDataDirVfs(cache, mods, mfs, ov)

\* the tree the helper builds on "flush"
HelperFlushTree(cache, mods, mfs, ov, extras) ==
  InjectExtraFiles(BuildDataDirVfs(cache, mods, mfs, ov), extras)

\* a swap that did not wait for the handlers
LockWithoutWaiting == TRUE

\* std::unique_lock on tree_mutex is granted when no handler holds it shared
CanLockExclusive == hdl.pc = "idle"

\* the record of a lifecycle call
Event(op, res) == [NoEvent EXCEPT !.op = op, !.res = res]

\* the record of a call that ran flushStaging: whether the staging directory
\* held anything, and whether an entry failed to reach the overwrite directory
FlushEvent(op, res, exists, io) ==
  [Event(op, res) EXCEPT
     !.staged = exists /\ \E p \in Paths : stagingFS[p] # "none",
     !.ioerr = exists /\ ~NoIoError(stagingFS, overwriteFS, io)]

NoHandler == [pc |-> "idle", snap |-> EmptyTree]

NoHandles == [i \in 1..MaxHandles |-> Closed]

(* ----------------------------- inode table --------------------------- *)

\* a fresh InodeTable: the root holds inode 1, the counter starts after it;
\* ino is the inode of a path (0: no entry), cnt the entry's lookup count,
\* kref the references the kernel holds on the inode
NewInodeTable ==
  [next |-> 2, ino |-> [p \in Paths |-> 0], cnt |-> [p \in Paths |-> 0],
   kref |-> [p \in Paths |-> 0]]

(* -------------------- mappings outside the data directory ------------- *)

\* destination paths outside the mount
Dests == {"p", "q"}

\* what can be at a destination: nothing, a regular file, a directory, a
\* symlink made by somebody else ("link"), a symlink made by the deployer
Real == {"file", "dir"}

Symlinks == {"link", "ours"}

\* the mutated per-file step: the symlink is made whatever is there
DeployOverwriting(fs, d) == "ours"

\* what deployExternalMappings leaves at destination d: an entry that exists
\* and is not a symlink is kept, anything else becomes the deployer's symlink
DeployOne(fs, d) == IF fs[d] \in Real THEN fs[d] ELSE "ours"

\* cleanupExternalMappings: every tracked path that is a symlink now is
\* removed and the list cleared; nothing happens with an empty list
CleanupExternalMappings(x) ==
  IF x.tracked = {} THEN x
  ELSE [x EXCEPT !.fs = [d \in Dests |->
                           IF d \in x.tracked /\ x.fs[d] \in Symlinks THEN "none"
                           ELSE x.fs[d]],
                 !.tracked = {},
                 !.last = "cleanup"]

\* deployExternalMappings for the mappings whose destinations are S: the
\* cleanup, then one symlink per destination, tracked when it was created
DeployExternalMappings(x, S) ==
  LET c == CleanupExternalMappings(x)
  IN [c EXCEPT !.fs = [d \in Dests |-> IF d \in S THEN DeployOne(c.fs, d) ELSE c.fs[d]],
               !.tracked = {d \in S : c.fs[d] \notin Real},
               !.last = IF S = {} THEN c.last ELSE "deploy"]

(* ------------------------------- mount -------------------------------- *)

MountFailures == {"none", "backing", "session", "mount"}

HelperFailures == {"none", "nohelper", "nostart", "nomounted"}

\* tryCleanupStaleMount: isStaleOrMounted, then doUnmount
TryCleanupStaleMount(t, cleared) ==
  IF t \in {"stale", "listed"} /\ cleared THEN "clean" ELSE t

\* mount() up to the data-directory check, which fails on a dead overlay:
\* stat gives ENOTCONN there
MountNoDataDir(mods, extras, cleared) ==
  /\ mpc = "idle" /\ ~m_mounted
  /\ target = "stale"
  /\ m_extraVfsFiles' = extras
  /\ m_lastMods' = mods
  /\ m_overwriteDir' = "p1"
  /\ ev' = [Event("mount", "threw") EXCEPT !.stale = TRUE, !.cleared = cleared,
                                            !.fail = "none"]
  /\ \E S \in SUBSET ext.dests : ext' = DeployExternalMappings(ext, S)
  /\ UNCHANGED <<auxVars, target, flatpak, diskVars, m_mounted, m_baseFileCache, m_cachedDataDirPath, m_backingFd,
                 m_session, m_stagingDir, m_helperProcess, g_fuseMountPoint,
                 helperVars, tree, newTree, lockW, mpc, hdl, handles, ops, unlinked>>

\* a scan only when nothing is cached
NeedsScanWhenEmpty(cache, cached, dir) == cache = EmptyFS

\* m_baseFileCache.empty() || m_dataDirPath != m_cachedDataDirPath
NeedsScan(cache, cached, dir) == cache = EmptyFS \/ dir # cached

\* what is on disk at a data-directory path: the managed game's directory,
\* or that of another game, which has no file a
DirFS(dir) == IF dir = "d1" THEN baseFS ELSE [baseFS EXCEPT ![<<"a">>] = "none"]

\* mount() in the connector's own process, on the data directory dir
MountInProcessAt(dir, mods, extras, fail, cleared) ==
  /\ mpc = "idle" /\ ~m_mounted
  /\ target # "stale"
  /\ cleared => target = "listed"
  /\ ~flatpak
  /\ m_extraVfsFiles' = extras
  /\ m_lastMods' = mods
  /\ m_overwriteDir' = "p1"
  /\ m_stagingDir' = m_overwriteDir'
  /\ stagingExists' = TRUE
  /\ IF NeedsScan(m_baseFileCache, m_cachedDataDirPath, dir)
     THEN /\ m_baseFileCache' = ScanDataDir(DirFS(dir))
          /\ m_cachedDataDirPath' = dir
     ELSE UNCHANGED <<m_baseFileCache, m_cachedDataDirPath>>
  /\ target' = IF fail = "none" THEN "fuse" ELSE TryCleanupStaleMount(target, cleared)
  /\ IF fail = "backing"
     THEN /\ UNCHANGED <<tree, handles, unlinked, m_backingFd, m_session,
                         m_mounted, g_fuseMountPoint>>
     ELSE /\ tree' = MountTree(m_baseFileCache', mods, modFS, overwriteFS, extras)
          /\ handles' = NoHandles
          /\ unlinked' = {}
          /\ m_backingFd' = (fail = "none")
          /\ m_session' = (fail = "none")
          /\ m_mounted' = (fail = "none")
          /\ g_fuseMountPoint' = (fail = "none")
  /\ ev' = [Event("mount", IF fail = "none" THEN "ok" ELSE "threw")
              EXCEPT !.dir = dir, !.stale = FALSE, !.cleared = cleared, !.fail = fail]
  /\ \E S \in SUBSET ext.dests : ext' = DeployExternalMappings(ext, S)
  /\ inodes' = NewInodeTable
  /\ UNCHANGED <<hp, wire, side, mapping, flatpak, baseFS, modFS, overwriteFS, stagingFS, m_helperProcess,
                 helperVars, newTree, lockW, mpc, hdl, ops>>

\* mount() on the data directory of the managed game
MountInProcess(mods, extras, fail, cleared) ==
  MountInProcessAt("d1", mods, extras, fail, cleared)

\* mountViaHelper, and the helper's main() up to "mounted"
MountViaHelper(mods, extras, fail, cleared) ==
  /\ mpc = "idle" /\ ~m_mounted
  /\ target # "stale"
  /\ cleared => target = "listed"
  /\ flatpak
  /\ m_extraVfsFiles' = extras
  /\ m_lastMods' = mods
  /\ m_overwriteDir' = "p1"
  /\ target' = IF fail = "none" THEN "fuse" ELSE TryCleanupStaleMount(target, cleared)
  /\ IF fail = "nohelper"
     THEN UNCHANGED <<cfgFile, h_config, h_baseFileCache, stagingExists, tree,
                      handles, unlinked, m_helperProcess, m_mounted, g_fuseMountPoint>>
     ELSE /\ cfgFile' = [mods |-> mods, extras |-> extras]
          /\ IF fail = "nostart"
             THEN UNCHANGED <<h_config, h_baseFileCache, stagingExists, tree,
                              handles, unlinked, m_helperProcess, m_mounted,
                              g_fuseMountPoint>>
             ELSE /\ h_config' = cfgFile'
                  /\ stagingExists' = TRUE
                  /\ h_baseFileCache' = ScanDataDir(baseFS)
                  /\ IF fail = "nomounted"
                     THEN UNCHANGED <<tree, handles, unlinked, m_helperProcess,
                                      m_mounted, g_fuseMountPoint>>
                     ELSE /\ tree' = MountTree(h_baseFileCache', h_config'.mods, modFS,
                                               overwriteFS, h_config'.extras)
                          /\ handles' = NoHandles
                          /\ unlinked' = {}
                          /\ m_helperProcess' = TRUE
                          /\ m_mounted' = TRUE
                          /\ g_fuseMountPoint' = TRUE
  /\ ev' = [Event("mount", IF fail = "none" THEN "ok" ELSE "threw")
              EXCEPT !.stale = FALSE, !.cleared = cleared, !.fail = fail]
  /\ \E S \in SUBSET ext.dests : ext' = DeployExternalMappings(ext, S)
  /\ inodes' = NewInodeTable
  /\ UNCHANGED <<hp, wire, side, mapping, flatpak, baseFS, modFS, overwriteFS, stagingFS, m_baseFileCache, m_cachedDataDirPath,
                 m_backingFd, m_session, m_stagingDir, newTree, lockW, mpc, hdl, ops>>

(* ------------------------------ unmount ------------------------------- *)

\* a setter that copies a path and ignores a null pointer
SetNonNullOnly(path) == TRUE

\* setFuseMountPointForCrashCleanup: the buffer holds a path afterwards
\* unless it was given a null pointer
SetFuseMountPointForCrashCleanup(path) == path # "nullptr"

\* unmount(): the session ends (the loop thread is joined, so no handler is
\* in flight), then flushStaging; with a helper, "quit" makes the helper do
\* the same
Unmount(io) ==
  /\ mpc = "idle" /\ m_mounted
  /\ hdl.pc = "idle"
  /\ LET r == FlushStaging(stagingExists /\ (m_helperProcess \/ m_stagingDir # ""),
                           stagingFS, overwriteFS, io)
         w == FlushWrites(baseFS, r)
     IN /\ baseFS' = w.base
        /\ overwriteFS' = w.ov
        /\ stagingFS' = w.st
        /\ stagingExists' = (stagingExists /\ ~(m_helperProcess \/ m_stagingDir # ""))
                             \/ r.staging.exists
  /\ handles' = NoHandles
  /\ tree' = EmptyTree
  /\ m_session' = FALSE
  /\ m_backingFd' = FALSE
  /\ m_helperProcess' = FALSE
  /\ m_mounted' = FALSE
  /\ g_fuseMountPoint' = SetFuseMountPointForCrashCleanup("nullptr")
  /\ target' = "clean"
  /\ ev' = FlushEvent("unmount", "ok", stagingExists /\ (m_helperProcess \/ m_stagingDir # ""),
                      io)
  /\ ext' = CleanupExternalMappings(ext)
  /\ inodes' = NewInodeTable
  /\ UNCHANGED <<hp, wire, side, mapping, flatpak, modFS, m_lastMods, m_extraVfsFiles, m_baseFileCache, m_cachedDataDirPath,
                 m_stagingDir, m_overwriteDir, helperVars, newTree, lockW, mpc, hdl, ops, unlinked>>

\* unmount() on a connector that is not mounted, which is also all that
\* ~FuseConnector does then: it returns at once
UnmountNotMounted ==
  /\ mpc = "idle" /\ ~m_mounted
  /\ ev' = Event("unmount", "notmounted")
  /\ UNCHANGED <<coreVarsButEv, hp, ext, inodes, wire, side, mapping>>

(* ----------------------- unmount, call by call ------------------------ *)

\* the in-process unmount with the promotion moved before the join
UnmountFlushBeforeJoin ==
  <<"exit", "unmount", "flush", "join", "destroy", "close", "reset", "crash", "symlinks">>

\* the calls of the in-process branch of unmount(), in the order of the code:
\* fuse_session_exit, fuse_session_unmount, m_fuseThread.join,
\* fuse_session_destroy, flushStaging, close(m_backingFd), m_context.reset
\* with m_mounted = false, setFuseMountPointForCrashCleanup(nullptr),
\* cleanupExternalMappings
UnmountOrder ==
  <<"exit", "unmount", "join", "destroy", "flush", "close", "reset", "crash", "symlinks">>

\* where unmount() is: mpc names the call it makes next
UnmountPos(s) == CHOOSE k \in 1..Len(UnmountOrder) : UnmountOrder[k] = s

\* the loop thread serves requests until it has been joined
LoopRunning ==
  (\E k \in 1..Len(UnmountOrder) : UnmountOrder[k] = mpc)
     => UnmountPos(mpc) <= UnmountPos("join")

\* unmount() on a connector mounted in process: past the two early branches
UnmountBegin ==
  /\ mpc = "idle" /\ m_mounted /\ ~m_helperProcess
  /\ mpc' = UnmountOrder[1]
  /\ UNCHANGED <<auxVars, ext, target, flatpak, diskVars, m_mounted, m_lastMods,
                 m_extraVfsFiles, m_baseFileCache, m_cachedDataDirPath, m_backingFd, m_session,
                 m_stagingDir, m_overwriteDir, m_helperProcess, g_fuseMountPoint, helperVars, tree,
                 newTree, lockW, hdl, handles, ops, unlinked, ev>>

\* the next call of unmount(); join returns when the handler in flight has
\* returned
UnmountStep(io) ==
  /\ \E k \in 1..Len(UnmountOrder) : UnmountOrder[k] = mpc
  /\ mpc = "join" => hdl.pc = "idle"
  /\ mpc' = IF UnmountPos(mpc) = Len(UnmountOrder) THEN "idle"
            ELSE UnmountOrder[UnmountPos(mpc) + 1]
  /\ target' = IF mpc = "unmount" THEN "clean" ELSE target
  /\ m_session' = (m_session /\ mpc # "destroy")
  /\ IF mpc = "flush"
     THEN LET r == FlushStaging(stagingExists /\ m_stagingDir # "", stagingFS, overwriteFS, io)
              w == FlushWrites(baseFS, r)
          IN /\ overwriteFS' = w.ov
             /\ stagingFS' = w.st
             /\ stagingExists' = (stagingExists /\ m_stagingDir = "") \/ r.staging.exists
             /\ ev' = FlushEvent("unmount", "ok", stagingExists /\ m_stagingDir # "", io)
     ELSE UNCHANGED <<overwriteFS, stagingFS, stagingExists, ev>>
  /\ m_backingFd' = (m_backingFd /\ mpc # "close")
  /\ IF mpc = "reset"
     THEN /\ tree' = EmptyTree
          /\ handles' = NoHandles
          /\ inodes' = NewInodeTable
          /\ m_mounted' = FALSE
     ELSE UNCHANGED <<tree, handles, inodes, m_mounted>>
  /\ g_fuseMountPoint' = IF mpc = "crash" THEN SetFuseMountPointForCrashCleanup("nullptr")
                       ELSE g_fuseMountPoint
  /\ ext' = IF mpc = "symlinks" THEN CleanupExternalMappings(ext) ELSE ext
  /\ UNCHANGED <<hp, wire, side, mapping, flatpak, baseFS, modFS, m_lastMods, m_extraVfsFiles,
                 m_baseFileCache, m_cachedDataDirPath, m_stagingDir, m_overwriteDir, m_helperProcess, helperVars, newTree,
                 lockW, hdl, ops, unlinked>>

(* ------------------------------ rebuild ------------------------------- *)

\* rebuild() up to the lock: the new tree is built from the cached base
\* catalog; with a helper the config is rewritten and "rebuild" sent, and the
\* helper builds from the config it reads back
RebuildBuildWith(ov, mods, extras) ==
  /\ mpc = "idle" /\ m_mounted
  /\ m_extraVfsFiles' = extras
  /\ m_lastMods' = mods
  /\ m_overwriteDir' = ov
  /\ IF m_helperProcess
     THEN /\ cfgFile' = [mods |-> mods, extras |-> extras]
          /\ newTree' = MountTree(h_baseFileCache, cfgFile'.mods, modFS, overwriteFS,
                                  cfgFile'.extras)
     ELSE /\ cfgFile' = cfgFile
          /\ newTree' = MountTree(m_baseFileCache, mods, modFS, overwriteFS, extras)
  /\ mpc' = "rebuild_built"
  /\ \E S \in SUBSET ext.dests : ext' = DeployExternalMappings(ext, S)
  /\ UNCHANGED <<auxVars, target, flatpak, diskVars, m_mounted, m_baseFileCache, m_cachedDataDirPath, m_backingFd,
                 m_session, m_stagingDir, m_helperProcess, g_fuseMountPoint, h_config,
                 h_baseFileCache, tree, lockW, hdl, handles, ops, unlinked, ev>>

\* rebuild() with the overwrite directory of the mount
RebuildBuild(mods, extras) == RebuildBuildWith("p1", mods, extras)

\* std::unique_lock lock(tree_mutex)
RebuildLock ==
  /\ mpc = "rebuild_built"
  /\ CanLockExclusive
  /\ lockW' = TRUE
  /\ mpc' = "rebuild_locked"
  /\ UNCHANGED <<auxVars, ext, target, flatpak, diskVars, m_mounted, m_lastMods, m_extraVfsFiles,
                 m_baseFileCache, m_cachedDataDirPath, m_backingFd, m_session, m_stagingDir, m_overwriteDir, m_helperProcess,
                 g_fuseMountPoint, helperVars, tree, newTree, hdl, handles, ops,
                 unlinked, ev>>

\* tree.swap(newTree); the lock and the old tree are released at scope exit
RebuildSwap ==
  /\ mpc = "rebuild_locked"
  /\ tree' = newTree
  /\ newTree' = EmptyTree
  /\ lockW' = FALSE
  /\ mpc' = "idle"
  /\ h_config' = IF m_helperProcess THEN cfgFile ELSE h_config
  /\ ev' = Event("rebuild", "ok")
  /\ UNCHANGED <<auxVars, ext, target, flatpak, diskVars, m_mounted, m_lastMods, m_extraVfsFiles,
                 m_baseFileCache, m_cachedDataDirPath, m_backingFd, m_session, m_stagingDir, m_overwriteDir, m_helperProcess,
                 g_fuseMountPoint, cfgFile, h_baseFileCache, hdl, handles, ops, unlinked>>

(* ----------------------------- live flush ----------------------------- *)

\* flushStagingLive() up to the lock: flushStaging, the staging directory
\* re-created, the new tree built
LiveFlushBuild(io) ==
  /\ mpc = "idle" /\ m_mounted
  /\ LET r == FlushStaging(stagingExists, stagingFS, overwriteFS, io)
         w == FlushWrites(baseFS, r)
     IN /\ baseFS' = w.base
        /\ overwriteFS' = w.ov
        /\ stagingFS' = w.st
        /\ stagingExists' = TRUE
        /\ handles' = IF stagingExists
                      THEN [i \in 1..MaxHandles |->
                              FdAfterFlush(handles[i], stagingFS, overwriteFS, io)]
                      ELSE handles
  /\ newTree' = IF m_helperProcess
                THEN HelperFlushTree(h_baseFileCache, h_config.mods, modFS, overwriteFS',
                                     h_config.extras)
                ELSE LiveFlushTree(m_baseFileCache, m_lastMods, modFS, overwriteFS',
                                   m_extraVfsFiles)
  /\ mpc' = "flush_built"
  /\ ev' = FlushEvent("flush", "promoted", stagingExists, io)
  /\ UNCHANGED <<auxVars, ext, target, flatpak, modFS, m_mounted, m_lastMods, m_extraVfsFiles,
                 m_baseFileCache, m_cachedDataDirPath, m_backingFd, m_session, m_stagingDir, m_overwriteDir, m_helperProcess,
                 g_fuseMountPoint, helperVars, tree, lockW, hdl, ops, unlinked>>

\* std::unique_lock lock(tree_mutex)
LiveFlushLock ==
  /\ mpc = "flush_built"
  /\ CanLockExclusive
  /\ lockW' = TRUE
  /\ mpc' = "flush_locked"
  /\ UNCHANGED <<auxVars, ext, target, flatpak, diskVars, m_mounted, m_lastMods, m_extraVfsFiles,
                 m_baseFileCache, m_cachedDataDirPath, m_backingFd, m_session, m_stagingDir, m_overwriteDir, m_helperProcess,
                 g_fuseMountPoint, helperVars, tree, newTree, hdl, handles, ops,
                 unlinked, ev>>

\* tree.swap(newTree), unlock, and the OverwriteManager re-created
LiveFlushSwap ==
  /\ mpc = "flush_locked"
  /\ tree' = newTree
  /\ newTree' = EmptyTree
  /\ lockW' = FALSE
  /\ mpc' = "idle"
  /\ ev' = [ev EXCEPT !.res = "ok"]
  /\ UNCHANGED <<auxVars, ext, target, flatpak, diskVars, m_mounted, m_lastMods, m_extraVfsFiles,
                 m_baseFileCache, m_cachedDataDirPath, m_backingFd, m_session, m_stagingDir, m_overwriteDir, m_helperProcess,
                 g_fuseMountPoint, helperVars, hdl, handles, ops, unlinked>>

(* --------------------------- kernel handlers -------------------------- *)

\* whiteout marker left in the tree by unlink of a base or mod file
Deleted == [kind |-> "deleted", src |-> NoSrc]

Visible(t, p) == t[p].kind \in {"file", "dir"}

\* the kernel requests: path operations, a rename, and operations on a handle
Requests ==
  [op : {"lookup", "open_r", "open_w", "create", "mkdir", "unlink", "setattr"},
   path : Paths, to : {<<>>}, fh : {0}]
    \cup {r \in [op : {"rename"}, path : Paths, to : Paths, fh : {0}] : r.path # r.to}
    \cup [op : {"read", "write", "release"}, path : {<<>>}, to : {<<>>},
          fh : 1..MaxHandles]

SrcContent(src) == ReadSrc(src, baseFS, modFS, overwriteFS, stagingFS)

\* the lowest free file handle, 0 when there is none
FreeFh ==
  IF \E i \in 1..MaxHandles : ~handles[i].open
  THEN CHOOSE i \in 1..MaxHandles :
         ~handles[i].open /\ \A j \in 1..MaxHandles : ~handles[j].open => i <= j
  ELSE 0

\* a staging path can be created: no regular file on the way, no directory at it
CanStage(p) ==
  /\ \A q \in Ancestors(p) : ~IsFile(stagingFS[q])
  /\ stagingFS[p] # "dir"

\* staging with entry e at p and the directories on the way created
Staged(st, p, e) ==
  [x \in Paths |-> IF x = p THEN e ELSE IF x \in Ancestors(p) THEN "dir" ELSE st[x]]

\* the target of a write exists as a readable file and can be staged
CanResolveWrite(p) ==
  /\ tree[p].kind = "file"
  /\ IsFile(SrcContent(tree[p].src))
  /\ CanStage(p)

\* OverwriteManager resolve-write: the staging file if there is one, else a
\* copy of the read source (lazy copy-on-write)
ResolveWrite(p) ==
  IF IsFile(stagingFS[p]) THEN stagingFS
  ELSE Staged(stagingFS, p, SrcContent(tree[p].src))

\* the parent of p is a directory of the tree (or the root)
ParentIsDir(p) == \A q \in Ancestors(p) : tree[q].kind = "dir"

\* descriptors after the physical file at loc is unlinked
DetachAt(hs, loc, data) ==
  [i \in 1..MaxHandles |->
     IF hs[i].open /\ hs[i].loc = loc THEN Detached(data, hs[i].wr) ELSE hs[i]]

Same == [tree |-> tree, st |-> stagingFS, stEx |-> stagingExists, ov |-> overwriteFS,
         handles |-> handles, unl |-> unlinked]

EffOpenR(p) ==
  IF tree[p].kind = "file" /\ IsFile(SrcContent(tree[p].src)) /\ FreeFh # 0
  THEN [Same EXCEPT !.handles = [handles EXCEPT ![FreeFh] = Fd(tree[p].src, FALSE)]]
  ELSE Same

EffOpenW(p) ==
  IF CanResolveWrite(p) /\ FreeFh # 0
  THEN [Same EXCEPT
          !.st = ResolveWrite(p), !.stEx = TRUE,
          !.tree = [tree EXCEPT ![p] = Leaf("staging", 0, p)],
          !.handles = [handles EXCEPT ![FreeFh] = Fd(Src("staging", 0, p), TRUE)]]
  ELSE Same

EffWrite(fh) ==
  LET h == handles[fh]
  IN IF ~(h.open /\ h.wr) THEN Same
     ELSE IF h.loc = NoSrc
       THEN [Same EXCEPT !.handles = [handles EXCEPT ![fh] = Detached("W", TRUE)]]
     ELSE IF h.loc.root = "staging"
       THEN [Same EXCEPT !.st = [stagingFS EXCEPT ![h.loc.path] = "W"]]
     ELSE IF h.loc.root = "overwrite"
       THEN [Same EXCEPT !.ov = [overwriteFS EXCEPT ![h.loc.path] = "W"]]
     ELSE Same

EffCreate(p) ==
  IF ~Visible(tree, p) /\ ParentIsDir(p) /\ CanStage(p) /\ FreeFh # 0
  THEN [Same EXCEPT
          !.st = Staged(stagingFS, p, "E"), !.stEx = TRUE,
          !.tree = [tree EXCEPT ![p] = Leaf("staging", 0, p)],
          !.handles = [DetachAt(handles, Src("staging", 0, p), stagingFS[p])
                         EXCEPT ![FreeFh] = Fd(Src("staging", 0, p), TRUE)],
          !.unl = unlinked \ {p}]
  ELSE Same

EffMkdir(p) ==
  IF ~Visible(tree, p) /\ ParentIsDir(p) /\ ~IsFile(stagingFS[p])
     /\ \A q \in Ancestors(p) : ~IsFile(stagingFS[q])
  THEN [Same EXCEPT
          !.st = Staged(stagingFS, p, "dir"), !.stEx = TRUE,
          !.tree = [tree EXCEPT ![p] = DirNode],
          !.unl = unlinked \ {p}]
  ELSE Same

EffUnlink(p) ==
  LET src == tree[p].src
  IN IF tree[p].kind # "file" THEN Same
     ELSE IF src.root = "staging"
       THEN [Same EXCEPT
               !.st = [stagingFS EXCEPT ![p] = "none"],
               !.tree = [tree EXCEPT ![p] = NoNode],
               !.handles = DetachAt(handles, src, stagingFS[p])]
     ELSE IF src.root = "overwrite"
       THEN [Same EXCEPT
               !.ov = [overwriteFS EXCEPT ![p] = "none"],
               !.tree = [tree EXCEPT ![p] = NoNode],
               !.handles = DetachAt(handles, src, overwriteFS[p])]
     ELSE [Same EXCEPT
             !.tree = [tree EXCEPT ![p] = Deleted],
             !.unl = IF src.root \in {"base", "mod"} THEN unlinked \cup {p}
                     ELSE unlinked]

EffSetattr(p) ==
  IF CanResolveWrite(p)
  THEN [Same EXCEPT
          !.st = ResolveWrite(p), !.stEx = TRUE,
          !.tree = [tree EXCEPT ![p] = Leaf("staging", 0, p)]]
  ELSE Same

\* rename: the source is materialised in staging, renamed there, and the tree
\* follows; the old path of a base, mod or extra file is whited out
EffRename(p, q) ==
  LET src == tree[p].src
      st1 == ResolveWrite(p)
      st2 == Staged([st1 EXCEPT ![p] = "none"], q, st1[p])
      moved == [i \in 1..MaxHandles |->
                  IF handles[i].open /\ handles[i].loc = Src("staging", 0, p)
                  THEN [handles[i] EXCEPT !.loc = Src("staging", 0, q)]
                  ELSE IF handles[i].open /\ handles[i].loc = Src("staging", 0, q)
                  THEN Detached(stagingFS[q], handles[i].wr)
                  ELSE handles[i]]
  IN IF CanResolveWrite(p) /\ tree[q].kind # "dir" /\ ParentIsDir(q) /\ CanStage(q)
        /\ ~IsUnder(q, p) /\ ~IsUnder(p, q)
     THEN [Same EXCEPT
             !.st = st2, !.stEx = TRUE,
             !.tree = [tree EXCEPT
                         ![q] = Leaf("staging", 0, q),
                         ![p] = IF src.root \in {"staging", "overwrite"} THEN NoNode
                                ELSE Deleted],
             !.handles = moved,
             !.unl = (IF src.root \in {"base", "mod"} THEN unlinked \cup {p}
                      ELSE unlinked) \ {q}]
     ELSE Same

EffRelease(fh) == [Same EXCEPT !.handles = [handles EXCEPT ![fh] = Closed]]

Effect(r) ==
  CASE r.op = "open_r" -> EffOpenR(r.path)
    [] r.op = "open_w" -> EffOpenW(r.path)
    [] r.op = "write" -> EffWrite(r.fh)
    [] r.op = "create" -> EffCreate(r.path)
    [] r.op = "mkdir" -> EffMkdir(r.path)
    [] r.op = "unlink" -> EffUnlink(r.path)
    [] r.op = "setattr" -> EffSetattr(r.path)
    [] r.op = "rename" -> EffRename(r.path, r.to)
    [] r.op = "release" -> EffRelease(r.fh)
    [] OTHER -> Same

\* a handler starts: it takes tree_mutex shared and reads the tree reference
HandlerEnter ==
  /\ m_mounted
  /\ LoopRunning
  /\ hdl.pc = "idle"
  /\ ~lockW
  /\ ops < MaxOps
  /\ hdl' = [pc |-> "in", snap |-> tree]
  /\ ops' = ops + 1
  /\ UNCHANGED <<auxVars, ext, target, flatpak, diskVars, m_mounted, m_lastMods, m_extraVfsFiles,
                 m_baseFileCache, m_cachedDataDirPath, m_backingFd, m_session, m_stagingDir, m_overwriteDir, m_helperProcess,
                 g_fuseMountPoint, helperVars, tree, newTree, lockW, mpc, handles,
                 unlinked, ev>>

\* the handler serves request r against the tree and releases the shared lock
HandlerExit(r) ==
  /\ hdl.pc = "in"
  /\ LET e == Effect(r)
     IN /\ tree' = e.tree
        /\ stagingFS' = e.st
        /\ stagingExists' = e.stEx
        /\ overwriteFS' = e.ov
        /\ handles' = e.handles
        /\ unlinked' = e.unl
  /\ hdl' = NoHandler
  /\ UNCHANGED <<auxVars, ext, target, flatpak, baseFS, modFS, m_mounted, m_lastMods, m_extraVfsFiles,
                 m_baseFileCache, m_cachedDataDirPath, m_backingFd, m_session, m_stagingDir, m_overwriteDir, m_helperProcess,
                 g_fuseMountPoint, helperVars, newTree, lockW, mpc, ops, ev>>

(* ------------------------------- Init --------------------------------- *)

\* no helper process: main() not entered, nothing on its stdin or stdout
NoHelper ==
  [pc |-> "none", cmd |-> "", resp |-> 0, exit |-> "", fail |-> "none", sd |-> 0,
   loop |-> FALSE, session |-> FALSE, kmount |-> FALSE, backingFd |-> FALSE,
   stdin |-> <<>>, pipe |-> <<>>, mgr |-> "idle",
   arg |-> TRUE, start |-> <<>>, promoted |-> FALSE]

\* no mapping outside the data directory, m_externalSymlinks empty
NoExternal ==
  [dests |-> {}, fs |-> [d \in Dests |-> "none"], tracked |-> {}, last |-> "none"]


\* nothing handed to the NXM handler or to the Wine prefix code yet
NoSide == [pc |-> "none"]

\* no mapping set handed over yet
NoMapping == [pc |-> "none", map |-> <<>>, links |-> <<>>, before |-> <<>>]

\* a default-constructed HelperConfig
EmptyConfig ==
  [mount_point |-> <<>>, game_dir |-> <<>>, data_dir_name |-> <<>>,
   overwrite_dir |-> <<>>, mods |-> <<>>, extra_files |-> <<>>]

\* no config file written yet
NoWire == [pc |-> "none", cfg |-> EmptyConfig, text |-> <<>>, parsed |-> EmptyConfig,
           edited |-> FALSE]

MkFS(a, d, db) ==
  [p \in Paths |-> IF p = <<"a">> THEN a ELSE IF p = <<"d">> THEN d ELSE db]

\* the game's data directory
BaseInit == MkFS("B", "dir", "B")

\* mod 1 brings a file named d, mod 2 a directory d
ModInit(i) ==
  IF i = 1 THEN MkFS("M1", "M1", "none")
  ELSE IF i = 2 THEN MkFS("M2", "dir", "M2")
  ELSE MkFS("none", "dir", ModTok[i])

InitWith(b, ov, st, stEx, tgt, fp, x) ==
  /\ target = tgt
  /\ flatpak = fp
  /\ baseFS = b
  /\ modFS = [i \in ModIds |-> ModInit(i)]
  /\ overwriteFS = ov
  /\ stagingFS = st
  /\ stagingExists = stEx
  /\ m_mounted = FALSE
  /\ m_lastMods = <<>>
  /\ m_extraVfsFiles = <<>>
  /\ m_baseFileCache = EmptyFS
  /\ m_cachedDataDirPath = ""
  /\ m_backingFd = FALSE
  /\ m_session = FALSE
  /\ m_stagingDir = ""
  /\ m_overwriteDir = ""
  /\ m_helperProcess = FALSE
  /\ g_fuseMountPoint = FALSE
  /\ cfgFile = NoConfig
  /\ h_config = NoConfig
  /\ h_baseFileCache = EmptyFS
  /\ tree = EmptyTree
  /\ newTree = EmptyTree
  /\ lockW = FALSE
  /\ mpc = "idle"
  /\ hdl = NoHandler
  /\ handles = NoHandles
  /\ ops = 0
  /\ unlinked = {}
  /\ ev = NoEvent
  /\ hp = NoHelper
  /\ ext = x
  /\ inodes = NewInodeTable
  /\ wire = NoWire
  /\ side = NoSide
  /\ mapping = NoMapping

(* --------------- tree building over all layer contents ---------------- *)

\* a clean mount point; in process any base and overwrite content, with the
\* helper (which makes the same two calls) any overwrite content
InitBuild ==
  \E b \in AllFS("B"), ov \in AllFS("O"), fp \in BOOLEAN :
    /\ fp => b = BaseInit
    /\ InitWith(b, ov, EmptyFS, FALSE, "clean", fp, NoExternal)

NextBuild ==
  \E mods \in ModLists, extras \in ExtraLists :
    \/ MountInProcess(mods, extras, "none", FALSE)
    \/ MountViaHelper(mods, extras, "none", FALSE)

SpecBuild == InitBuild /\ [][NextBuild]_vars

\* the layers of a mount in increasing precedence: base catalog, the mods in
\* list order, overwrite, then each extra-file entry in map order
NLayers == 2 + Len(m_lastMods) + Len(m_extraVfsFiles)

ExtraFS(e) ==
  [p \in Paths |-> IF p = e.rel THEN e.real
                   ELSE IF p \in Ancestors(e.rel) THEN "dir" ELSE "none"]

LayerFS(k) ==
  IF k = 1 THEN baseFS
  ELSE IF k <= 1 + Len(m_lastMods) THEN modFS[m_lastMods[k - 1]]
  ELSE IF k = 2 + Len(m_lastMods) THEN overwriteFS
  ELSE ExtraFS(m_extraVfsFiles[k - 2 - Len(m_lastMods)])

LayerLeaf(k, p) ==
  IF k = 1 THEN Leaf("base", 0, p)
  ELSE IF k <= 1 + Len(m_lastMods) THEN Leaf("mod", m_lastMods[k - 1], p)
  ELSE IF k = 2 + Len(m_lastMods) THEN Leaf("overwrite", 0, p)
  ELSE Leaf("ext", 0, <<m_extraVfsFiles[k - 2 - Len(m_lastMods)].real>>)

HasFile(k, p) == IsFile(LayerFS(k)[p])

FileLayers(p) == {k \in 1..NLayers : HasFile(k, p)}

TopLayer(p) == CHOOSE k \in FileLayers(p) : \A j \in FileLayers(p) : j <= k

\* layer j shadows p: it has a regular file at an ancestor of p
Shadows(j, p) == \E q \in Ancestors(p) : HasFile(j, q)

\* layer j displaces a file at p: it shadows p or has a directory at p
Displaces(j, p) == Shadows(j, p) \/ LayerFS(j)[p] = "dir"

\* C1 as stated: every path found as a file in some layer resolves to the
\* highest-precedence layer that has it (extra over overwrite over later mod
\* over earlier mod over base), and the visible paths are exactly the union
\* of the layers' paths
C1_LayeringAsStated ==
  m_mounted =>
    /\ \A p \in Paths : FileLayers(p) # {} => tree[p] = LayerLeaf(TopLayer(p), p)
    /\ \A p \in Paths :
         tree[p].kind # "none" <=> \E k \in 1..NLayers : LayerFS(k)[p] # "none"

\* C1 amended: a path found as a file in some layer resolves to the
\* highest-precedence layer that has it unless a layer of higher precedence
\* displaces it (a regular file at an ancestor, or a directory at the path);
\* a file node always comes from the highest layer that has the file; and the
\* visible paths are the paths of the layers that no higher layer shadows
C1_Layering ==
  m_mounted =>
    /\ \A p \in Paths :
         FileLayers(p) # {} /\ ~(\E j \in 1..NLayers : j > TopLayer(p) /\ Displaces(j, p))
           => tree[p] = LayerLeaf(TopLayer(p), p)
    /\ \A p \in Paths :
         tree[p].kind = "file" => FileLayers(p) # {} /\ tree[p] = LayerLeaf(TopLayer(p), p)
    /\ \A p \in Paths :
         tree[p].kind # "none" <=>
           \E k \in 1..NLayers : /\ LayerFS(k)[p] # "none"
                                 /\ ~(\E j \in 1..NLayers : j > k /\ Shadows(j, p))

\* a mounted tree in which a is in base, two mods and overwrite and resolves
\* to overwrite, while an extra file is injected elsewhere
C1_Witness ==
  /\ m_mounted
  /\ Len(m_lastMods) = 2
  /\ Cardinality(FileLayers(<<"a">>)) = 4
  /\ tree[<<"a">>] = Leaf("overwrite", 0, <<"a">>)
  /\ \E p \in Paths : tree[p].kind = "file" /\ tree[p].src.root = "ext"

(* ------------- promotion over all staging and overwrite contents ------- *)

\* any staging directory left by an earlier session, any overwrite content
InitFlush ==
  \E st \in AllFS("W"), stEx \in BOOLEAN, ov \in AllFS("O"), fp \in BOOLEAN :
    /\ ~stEx => st = EmptyFS
    /\ InitWith(BaseInit, ov, st, stEx, "clean", fp, NoExternal)

NextFlush ==
  \/ MountInProcess(<<1>>, <<>>, "none", FALSE)
  \/ MountViaHelper(<<1>>, <<>>, "none", FALSE)
  \/ \E io \in IoChoices(stagingFS) : LiveFlushBuild(io)
  \/ LiveFlushLock
  \/ LiveFlushSwap
  \/ \E io \in IoChoices(stagingFS) : Unmount(io)

SpecFlush == InitFlush /\ [][NextFlush]_vars

\* a step in which flushStaging runs on an existing staging directory: the
\* promotion of unmount() or of flushStagingLive()
PromotionStep ==
  /\ stagingExists
  /\ \/ m_mounted /\ ~m_mounted'
     \/ mpc = "idle" /\ mpc' = "flush_built"

\* C3: when promotion completes without I/O error, every staged regular file
\* is in overwrite at the same relative path with its content, every staged
\* directory exists in overwrite, and nothing of the staging directory is
\* left (unmount leaves it absent, live flush re-creates it empty)
C3_PromotionMovesAll ==
  [][PromotionStep /\ ~ev'.ioerr =>
       /\ \A p \in Paths : IsFile(stagingFS[p]) => overwriteFS'[p] = stagingFS[p]
       /\ \A p \in Paths : stagingFS[p] = "dir" => overwriteFS'[p] = "dir"
       /\ stagingFS' = EmptyFS
       /\ ~m_mounted' => ~stagingExists']_vars

\* an unmount promoted a staged d/b over an earlier overwrite file at d/b and
\* left the overwrite file a alone
C3_Witness ==
  /\ ev.op = "unmount" /\ ev.staged /\ ~ev.ioerr
  /\ ~stagingExists
  /\ overwriteFS[<<"d", "b">>] = "W"
  /\ overwriteFS[<<"a">>] = "O"

\* C4: promotion is idempotent: whatever the staging and overwrite contents
\* and whatever fails in either run, a second flushStaging right after the
\* first leaves the overwrite directory and the staging directory as the
\* first left them
C4_PromotionIdempotent ==
  \A io1 \in IoChoices(stagingFS) :
    LET r1 == FlushStaging(stagingExists, stagingFS, overwriteFS, io1)
    IN \A io2 \in IoChoices(r1.staging.fs) :
         FlushStaging(r1.staging.exists, r1.staging.fs, r1.ov, io2) = r1

\* promotion had brought a file into overwrite, and unmount ran promotion
\* again on a staging directory with nothing in it
C4_Witness ==
  /\ ev.op = "unmount" /\ ~ev.staged
  /\ \E p \in Paths : overwriteFS[p] = "W"
  /\ ~stagingExists

\* C5 as stated: a staged file that promotion did not bring into overwrite is
\* still in the staging directory afterwards
C5_PartialPromotionKeepsStaging ==
  [][PromotionStep =>
       \A p \in Paths :
         IsFile(stagingFS[p]) /\ overwriteFS'[p] # stagingFS[p]
           => stagingFS'[p] = stagingFS[p]]_vars

(* --------------------------- the whole machine ------------------------ *)

\* the mapping sets handed to updateMapping: ordered mods and extra files
Mappings ==
  {[mods |-> <<>>, extras |-> <<>>],
   [mods |-> <<2>>, extras |-> <<[rel |-> <<"a">>, real |-> "x1"]>>]}

\* a clean mount point, the dead overlay of a crashed session, or a live
\* mount left behind; the overwrite directory holds one file
Init ==
  \E tgt \in {"clean", "stale", "listed"}, fp \in BOOLEAN :
    InitWith(BaseInit, MkFS("O", "none", "none"), EmptyFS, FALSE, tgt, fp, NoExternal)

Next ==
  \/ \E m \in Mappings, cleared \in BOOLEAN : MountNoDataDir(m.mods, m.extras, cleared)
  \/ \E m \in Mappings, fail \in MountFailures, cleared \in BOOLEAN :
       MountInProcess(m.mods, m.extras, fail, cleared)
  \/ \E m \in Mappings, fail \in HelperFailures, cleared \in BOOLEAN :
       MountViaHelper(m.mods, m.extras, fail, cleared)
  \/ \E io \in IoChoices(stagingFS) : Unmount(io)
  \/ \E m \in Mappings : RebuildBuild(m.mods, m.extras)
  \/ RebuildLock
  \/ RebuildSwap
  \/ \E io \in IoChoices(stagingFS) : LiveFlushBuild(io)
  \/ LiveFlushLock
  \/ LiveFlushSwap
  \/ HandlerEnter
  \/ \E r \in Requests : HandlerExit(r)

Spec == Init /\ [][Next]_vars

(* ------------------------ claims on the whole machine ------------------ *)

C6_SwapAtomic ==
  /\ hdl.pc = "in" => hdl.snap = tree /\ ~lockW
  /\ lockW => /\ mpc \in {"rebuild_locked", "flush_locked"}
              /\ hdl.pc = "idle"
              /\ newTree # EmptyTree

\* a rebuild has its replacement tree ready and waits for a handler that is
\* still working on the old tree
C6_Witness ==
  /\ mpc = "rebuild_built"
  /\ hdl.pc = "in"
  /\ newTree # tree

\* a step of rebuild() or flushStagingLive() on a mounted connector
LifecycleStep == m_mounted /\ m_mounted' /\ mpc' # mpc

ReadNow(h) == ReadFd(h, baseFS, modFS, overwriteFS, stagingFS)

ReadNext(h) == ReadFd(h, baseFS', modFS', overwriteFS', stagingFS')

\* C7: across every step of a rebuild or a live flush an open handle stays
\* open and reads the data of the physical file it is open on: the same data
\* as before, or, when promotion copied a staged file over that very file,
\* the promoted data; the tree it was opened through plays no part
C7_HandleSurvives ==
  [][LifecycleStep =>
       \A fh \in 1..MaxHandles :
         handles[fh].open =>
           /\ handles'[fh].open
           /\ \/ ReadNext(handles'[fh]) = ReadNow(handles[fh])
              \/ /\ handles[fh].loc # NoSrc
                 /\ handles[fh].loc.root = "overwrite"
                 /\ handles'[fh].loc = handles[fh].loc
                 /\ ReadNext(handles'[fh]) = stagingFS[handles[fh].loc.path]]_vars

\* a handle is open on the overwrite file a while the published tree, after a
\* rebuild with another mapping, resolves a to an extra file
C7_Witness ==
  /\ m_mounted /\ mpc = "idle" /\ ev.op = "rebuild"
  /\ handles[1].open
  /\ handles[1].loc = Src("overwrite", 0, <<"a">>)
  /\ tree[<<"a">>].src.root = "ext"

\* a step that publishes a tree: the end of mount(), or a swap
PublishStep ==
  \/ ~m_mounted /\ m_mounted'
  \/ mpc \in {"rebuild_locked", "flush_locked"} /\ mpc' = "idle"

\* every entry of the extra-file map that no later entry overrides is in t
ExtrasIn(t, extras) ==
  \A i \in 1..Len(extras) :
    (\A j \in (i + 1)..Len(extras) :
       /\ extras[j].rel # extras[i].rel
       /\ ~IsUnder(extras[j].rel, extras[i].rel)
       /\ ~IsUnder(extras[i].rel, extras[j].rel))
      => t[extras[i].rel] = Leaf("ext", 0, <<extras[i].real>>)

\* C8 as stated: every tree that is published holds the current extra files
C8_ExtrasInEveryPublishedTree ==
  [][PublishStep => ExtrasIn(tree', m_extraVfsFiles')]_vars

\* C9 as stated: a base or mod file unlinked through the mount is not visible
\* for the rest of the session
C9_UnlinkedStaysHidden ==
  m_mounted => \A p \in unlinked : ~Visible(tree, p)

\* C10 as stated: mount() on a dead overlay that the forced unmount can clear,
\* with nothing else failing, ends mounted
C10_StaleMountRecovered ==
  (ev.op = "mount" /\ ev.stale /\ ev.cleared /\ ev.fail = "none") => m_mounted

\* a step of mount(): the only calls a connector that is not mounted takes
MountStep == ~m_mounted /\ mpc = "idle"

\* C11 as stated: when mount() finds a stale or left-behind mount at the
\* target and no unmount variant clears it, the call fails without scanning
\* the base, creating a session, mounting, or starting the helper
C11_StaleMountFailFast ==
  [][MountStep /\ target \in {"stale", "listed"} /\ ~ev'.cleared =>
       /\ ~m_mounted'
       /\ m_baseFileCache' = m_baseFileCache
       /\ h_baseFileCache' = h_baseFileCache
       /\ ~m_session' /\ ~m_backingFd'
       /\ ~m_helperProcess' /\ cfgFile' = cfgFile]_vars

\* C12 as stated: a mount() that fails leaves no backing handle, no session,
\* no helper process, is not mounted, has the crash-cleanup mount point
\* unset, and has released the staging directory it created
C12_FailedMountReleasesAll ==
  [][MountStep /\ ev'.res = "threw" =>
       /\ ~m_backingFd' /\ ~m_session' /\ ~m_helperProcess'
       /\ ~m_mounted' /\ ~g_fuseMountPoint'
       /\ ~stagingExists => ~stagingExists']_vars

(* ------------------------- the helper process ------------------------- *)

\* lines that may wait on the helper's stdin or unread on its stdout
MaxPending == 2

\* the ways main() can fail before "mounted"
StartupFailures ==
  {"none", "noarg", "nomountpoint", "nodatadir", "backing", "session", "mount"}

\* what a failure exit of main() writes on stdout: the usage text of a
\* missing argument goes to std::cerr
StartupOutput(fail) ==
  IF fail = "none" THEN <<"mounted">>
  ELSE IF fail = "noarg" THEN <<>>
  ELSE <<"error">>

\* the order of the statements after the command loop
ShutdownOkFirst ==
  <<"ok", "unmount", "join", "destroy", "flush", "close">>

ShutdownOrder ==
  <<"unmount", "join", "destroy", "flush", "close", "ok">>

lifeVars == <<m_lastMods, m_extraVfsFiles, m_baseFileCache, m_cachedDataDirPath, m_backingFd, m_session,
              m_stagingDir, m_overwriteDir>>

restVars == <<flatpak, baseFS, modFS, ext, inodes, wire, side, mapping, newTree, lockW, mpc, hdl,
              handles, ops, unlinked>>

\* mountViaHelper up to the wait for "mounted": the config is written and the
\* process started
MgrStartHelper(mods, extras) ==
  /\ flatpak /\ ~m_mounted /\ ~m_helperProcess
  /\ target = "clean"
  /\ hp.mgr = "idle" /\ hp.pc \in {"none", "exited", "killed"}
  /\ m_lastMods' = mods
  /\ m_overwriteDir' = "p1"
  /\ m_extraVfsFiles' = extras
  /\ cfgFile' = [mods |-> mods, extras |-> extras]
  /\ m_helperProcess' = TRUE
  /\ hp' = [NoHelper EXCEPT !.pc = "main", !.mgr = "wait_mounted"]
  /\ UNCHANGED <<target, overwriteFS, stagingFS, stagingExists, m_mounted,
                 m_baseFileCache, m_cachedDataDirPath, m_backingFd, m_session, m_stagingDir,
                 g_fuseMountPoint, h_config, h_baseFileCache, tree, ev,
                 restVars>>

\* the helper launched by hand, without the config argument
ShellStart ==
  /\ ~m_helperProcess /\ hp.mgr = "idle"
  /\ hp.pc \in {"none", "exited", "killed"}
  /\ hp' = [NoHelper EXCEPT !.pc = "main", !.arg = FALSE]
  /\ UNCHANGED <<target, overwriteFS, stagingFS, stagingExists, m_mounted,
                 m_helperProcess, g_fuseMountPoint, helperVars, tree, lifeVars,
                 ev, restVars>>

\* main() from entry to "mounted" or to a failure exit
HelperStartup(fail) ==
  /\ hp.pc = "main"
  /\ (fail = "noarg") <=> ~hp.arg
  /\ LET ok == fail = "none"
         far == fail \in {"none", "backing", "session", "mount"}
     IN /\ hp' = [hp EXCEPT
                    !.pc = IF ok THEN "loop" ELSE "exited",
                    !.exit = IF ok THEN "" ELSE "nonzero",
                    !.fail = fail,
                    !.pipe = hp.pipe \o StartupOutput(fail),
                    !.start = StartupOutput(fail),
                    !.loop = ok, !.session = ok, !.kmount = ok, !.backingFd = ok]
        /\ h_config' = IF fail = "noarg" THEN h_config ELSE cfgFile
        /\ stagingExists' = (stagingExists \/ far)
        /\ h_baseFileCache' = IF far THEN ScanDataDir(baseFS) ELSE h_baseFileCache
        /\ tree' = IF ok THEN MountTree(ScanDataDir(baseFS), cfgFile.mods, modFS,
                                        overwriteFS, cfgFile.extras)
                   ELSE tree
        /\ target' = IF ok THEN "fuse" ELSE target
  /\ UNCHANGED <<overwriteFS, stagingFS, m_mounted, m_helperProcess, g_fuseMountPoint,
                 cfgFile, lifeVars, ev, restVars>>

\* waitForHelperLine(proc, "mounted", 10000) saw the line
MgrMounted ==
  /\ hp.mgr = "wait_mounted"
  /\ hp.pc # "exited" /\ hp.pipe # <<>> /\ Head(hp.pipe) = "mounted"
  /\ hp' = [hp EXCEPT !.pipe = Tail(hp.pipe), !.mgr = "idle"]
  /\ m_mounted' = TRUE
  /\ g_fuseMountPoint' = TRUE
  /\ ev' = Event("mount", "ok")
  /\ UNCHANGED <<target, overwriteFS, stagingFS, stagingExists, m_helperProcess,
                 helperVars, tree, lifeVars, restVars>>

\* the target after the helper is killed: a kernel mount whose server is gone
\* is a dead overlay
AfterKill(t) == IF hp.kmount /\ hp.pc # "exited" THEN "stale" ELSE t

\* waitForHelperLine(proc, "mounted", 10000) failed: an "error:" line, the
\* process gone, or the 10 s over; the helper is killed and deleted
MgrStartFailed ==
  /\ hp.mgr = "wait_mounted"
  /\ hp' = [hp EXCEPT !.pc = IF hp.pc = "exited" THEN "exited" ELSE "killed",
                      !.pipe = <<>>, !.stdin = <<>>, !.mgr = "idle"]
  /\ target' = AfterKill(target)
  /\ m_helperProcess' = FALSE
  /\ ev' = Event("mount", IF hp.pipe = <<>> /\ hp.pc # "exited" THEN "timeout"
                          ELSE "threw")
  /\ UNCHANGED <<overwriteFS, stagingFS, stagingExists, m_mounted, g_fuseMountPoint,
                 helperVars, tree, lifeVars, restVars>>

\* rebuild() and flushStagingLive() with a helper: sendHelperCommand writes
\* the line (rebuild rewrites the config first)
MgrSend(cmd, mods, extras) ==
  /\ cmd \in {"rebuild", "flush"}
  /\ m_mounted /\ m_helperProcess /\ hp.mgr = "idle"
  /\ Len(hp.stdin) + Len(hp.pipe) < MaxPending
  /\ IF cmd = "rebuild"
     THEN /\ m_lastMods' = mods
          /\ m_extraVfsFiles' = extras
          /\ cfgFile' = [mods |-> mods, extras |-> extras]
          /\ m_overwriteDir' = "p1"
     ELSE UNCHANGED <<m_lastMods, m_extraVfsFiles, cfgFile, m_overwriteDir>>
  /\ hp' = [hp EXCEPT !.stdin = Append(hp.stdin, cmd), !.mgr = "wait_" \o cmd]
  /\ UNCHANGED <<target, overwriteFS, stagingFS, stagingExists, m_mounted,
                 m_helperProcess, g_fuseMountPoint, h_config, h_baseFileCache, tree,
                 m_baseFileCache, m_cachedDataDirPath, m_backingFd, m_session, m_stagingDir, ev,
                 restVars>>

\* another writer puts a line on the helper's stdin
StdinLine(line) ==
  /\ hp.pc \in {"loop", "cmd"}
  /\ Len(hp.stdin) + Len(hp.pipe) < MaxPending
  /\ hp' = [hp EXCEPT !.stdin = Append(hp.stdin, line)]
  /\ UNCHANGED <<target, overwriteFS, stagingFS, stagingExists, m_mounted,
                 m_helperProcess, g_fuseMountPoint, helperVars, tree, lifeVars,
                 ev, restVars>>

\* waitForHelperLine(proc, "ok", timeoutMs) saw a line "ok"
MgrGotOk ==
  /\ hp.mgr \in {"wait_rebuild", "wait_flush"}
  /\ hp.pc \notin {"exited", "killed"}
  /\ hp.pipe # <<>>
  /\ hp' = [hp EXCEPT !.pipe = Tail(hp.pipe), !.mgr = "idle"]
  /\ ev' = Event(IF hp.mgr = "wait_rebuild" THEN "rebuild" ELSE "flush", "ok")
  /\ UNCHANGED <<target, overwriteFS, stagingFS, stagingExists, m_mounted,
                 m_helperProcess, g_fuseMountPoint, helperVars, tree, lifeVars,
                 restVars>>

\* waitForHelperLine(proc, "ok", timeoutMs) ran out of time; rebuild() and
\* flushStagingLive() drop the result and return
MgrTimeout ==
  /\ hp.mgr \in {"wait_rebuild", "wait_flush"}
  /\ hp.pipe = <<>>
  /\ hp' = [hp EXCEPT !.mgr = "idle"]
  /\ ev' = Event(IF hp.mgr = "wait_rebuild" THEN "rebuild" ELSE "flush", "timeout")
  /\ UNCHANGED <<target, overwriteFS, stagingFS, stagingExists, m_mounted,
                 m_helperProcess, g_fuseMountPoint, helperVars, tree, lifeVars,
                 restVars>>

\* unmount() with a helper, first half: "quit" is sent
MgrSendQuit ==
  /\ m_mounted /\ m_helperProcess /\ hp.mgr = "idle"
  /\ hp' = [hp EXCEPT !.stdin = Append(hp.stdin, "quit"), !.mgr = "wait_quit"]
  /\ UNCHANGED <<target, overwriteFS, stagingFS, stagingExists, m_mounted,
                 m_helperProcess, g_fuseMountPoint, helperVars, tree, lifeVars,
                 ev, restVars>>

\* unmount() with a helper, second half: after the wait for "ok" and
\* waitForFinished(5000) a helper still running is killed; the process is
\* deleted and the connector is unmounted
MgrUnmountFinish ==
  /\ hp.mgr = "wait_quit"
  /\ hp' = [hp EXCEPT !.pc = IF hp.pc = "exited" THEN "exited" ELSE "killed",
                      !.pipe = <<>>, !.stdin = <<>>, !.mgr = "idle"]
  /\ target' = AfterKill(target)
  /\ m_helperProcess' = FALSE
  /\ m_mounted' = FALSE
  /\ g_fuseMountPoint' = FALSE
  /\ ev' = Event("unmount", IF hp.pc = "exited" THEN "ok" ELSE "timeout")
  /\ ext' = CleanupExternalMappings(ext)
  /\ UNCHANGED <<overwriteFS, stagingFS, stagingExists, helperVars, tree, lifeVars,
                 flatpak, baseFS, modFS, inodes, wire, side, mapping, newTree, lockW, mpc,
                 hdl,
                 handles, ops, unlinked>>

\* std::getline(std::cin, line) returns a line
HelperRead ==
  /\ hp.pc = "loop"
  /\ hp.stdin # <<>>
  /\ hp' = [hp EXCEPT !.pc = "cmd", !.cmd = Head(hp.stdin), !.resp = 0,
                      !.stdin = Tail(hp.stdin)]
  /\ UNCHANGED <<target, overwriteFS, stagingFS, stagingExists, m_mounted,
                 m_helperProcess, g_fuseMountPoint, helperVars, tree, lifeVars,
                 ev, restVars>>

\* the "rebuild" branch: readConfig, build, swap under the lock, "ok"
HelperRebuild ==
  /\ hp.pc = "cmd" /\ hp.cmd = "rebuild"
  /\ CanLockExclusive
  /\ h_config' = cfgFile
  /\ tree' = MountTree(h_baseFileCache, cfgFile.mods, modFS, overwriteFS,
                       cfgFile.extras)
  /\ hp' = [hp EXCEPT !.pc = "loop", !.resp = hp.resp + 1,
                      !.pipe = Append(hp.pipe, "ok")]
  /\ UNCHANGED <<target, overwriteFS, stagingFS, stagingExists, m_mounted,
                 m_helperProcess, g_fuseMountPoint, cfgFile, h_baseFileCache,
                 lifeVars, ev, restVars>>

\* the "flush" branch: flushStaging, the staging directory re-created, build,
\* swap under the lock, "ok"
HelperFlush(io) ==
  /\ hp.pc = "cmd" /\ hp.cmd = "flush"
  /\ CanLockExclusive
  /\ LET r == FlushStaging(stagingExists, stagingFS, overwriteFS, io)
     IN /\ overwriteFS' = r.ov
        /\ stagingFS' = r.staging.fs
        /\ stagingExists' = TRUE
  /\ tree' = HelperFlushTree(h_baseFileCache, h_config.mods, modFS, overwriteFS',
                             h_config.extras)
  /\ hp' = [hp EXCEPT !.pc = "loop", !.resp = hp.resp + 1,
                      !.pipe = Append(hp.pipe, "ok")]
  /\ UNCHANGED <<target, m_mounted, m_helperProcess, g_fuseMountPoint, helperVars,
                 lifeVars, ev, restVars>>

\* a line that is none of "rebuild", "flush", "quit": no branch is taken and
\* the loop reads the next line
HelperOtherLine ==
  /\ hp.pc = "cmd" /\ hp.cmd \notin {"rebuild", "flush", "quit"}
  /\ hp' = [hp EXCEPT !.pc = "loop"]
  /\ UNCHANGED <<target, overwriteFS, stagingFS, stagingExists, m_mounted,
                 m_helperProcess, g_fuseMountPoint, helperVars, tree, lifeVars,
                 ev, restVars>>

\* the "quit" branch: break
HelperQuit ==
  /\ hp.pc = "cmd" /\ hp.cmd = "quit"
  /\ hp' = [hp EXCEPT !.pc = "shutdown", !.sd = 1]
  /\ UNCHANGED <<target, overwriteFS, stagingFS, stagingExists, m_mounted,
                 m_helperProcess, g_fuseMountPoint, helperVars, tree, lifeVars,
                 ev, restVars>>

\* one statement of the clean shutdown after the loop
HelperShutdownStep(io) ==
  /\ hp.pc = "shutdown" /\ hp.sd <= Len(ShutdownOrder)
  /\ LET k == ShutdownOrder[hp.sd]
         r == FlushStaging(stagingExists, stagingFS, overwriteFS, io)
     IN /\ hp' = [hp EXCEPT
                    !.sd = hp.sd + 1,
                    !.kmount = IF k = "unmount" THEN FALSE ELSE hp.kmount,
                    !.loop = IF k = "join" THEN FALSE ELSE hp.loop,
                    !.session = IF k = "destroy" THEN FALSE ELSE hp.session,
                    !.backingFd = IF k = "close" THEN FALSE ELSE hp.backingFd,
                    !.promoted = (k = "flush") \/ hp.promoted,
                    !.resp = IF k = "ok" THEN hp.resp + 1 ELSE hp.resp,
                    !.pipe = IF k = "ok" THEN Append(hp.pipe, "ok") ELSE hp.pipe]
        /\ target' = IF k = "unmount" THEN "clean" ELSE target
        /\ tree' = IF k = "destroy" THEN EmptyTree ELSE tree
        /\ overwriteFS' = IF k = "flush" THEN r.ov ELSE overwriteFS
        /\ stagingFS' = IF k = "flush" THEN r.staging.fs ELSE stagingFS
        /\ stagingExists' = IF k = "flush" THEN r.staging.exists ELSE stagingExists
  /\ UNCHANGED <<m_mounted, m_helperProcess, g_fuseMountPoint, helperVars, lifeVars,
                 ev, restVars>>

\* return 0
HelperExit ==
  /\ hp.pc = "shutdown" /\ hp.sd > Len(ShutdownOrder)
  /\ hp' = [hp EXCEPT !.pc = "exited", !.exit = "zero"]
  /\ UNCHANGED <<target, overwriteFS, stagingFS, stagingExists, m_mounted,
                 m_helperProcess, g_fuseMountPoint, helperVars, tree, lifeVars,
                 ev, restVars>>

\* a Flatpak manager with a clean mount point; the staging directory of an
\* earlier session may hold a file
InitHelper ==
  \E st \in {EmptyFS, MkFS("W", "none", "none")} :
    InitWith(BaseInit, MkFS("O", "none", "none"), st, st # EmptyFS, "clean", TRUE,
             NoExternal)

NextHelper ==
  \/ \E m \in Mappings : MgrStartHelper(m.mods, m.extras)
  \/ ShellStart
  \/ \E fail \in StartupFailures : HelperStartup(fail)
  \/ MgrMounted
  \/ MgrStartFailed
  \/ \E cmd \in {"rebuild", "flush"}, m \in Mappings : MgrSend(cmd, m.mods, m.extras)
  \/ \E line \in {"rebuild", "flush", "status"} : StdinLine(line)
  \/ MgrGotOk
  \/ MgrTimeout
  \/ MgrSendQuit
  \/ MgrUnmountFinish
  \/ HelperRead
  \/ HelperRebuild
  \/ \E io \in IoChoices(stagingFS) : HelperFlush(io)
  \/ HelperOtherLine
  \/ HelperQuit
  \/ \E io \in IoChoices(stagingFS) : HelperShutdownStep(io)
  \/ HelperExit

SpecHelper == InitHelper /\ [][NextHelper]_vars

\* C13 as stated: once the helper is back at reading its stdin, or has
\* exited, the command line it read last got exactly one response line
C13_OneResponsePerCommand ==
  (hp.pc \in {"loop", "exited"} /\ hp.cmd # "") => hp.resp = 1

\* C14 as stated: when a manager operation returns because the expected line
\* did not come in time, the helper has been killed and is not running
C14_TimeoutKillsHelper ==
  [][hp.mgr # "idle" /\ hp'.mgr = "idle" /\ ev'.res = "timeout" =>
       /\ hp'.pc \in {"exited", "killed"}
       /\ ~m_helperProcess']_vars

\* C15 as stated: every failed startup of the helper leaves exactly an
\* "error:" line on stdout and a non-zero exit code, and "mounted" is
\* written only by a startup whose kernel mount succeeded
C15_StartupFailureReported ==
  /\ hp.fail # "none" => hp.exit = "nonzero" /\ hp.start = <<"error">>
  /\ hp.start = <<"mounted">> => hp.fail = "none"

\* C16: once "ok" has been written in response to "quit", the event loop has
\* exited, the session is unmounted and destroyed, the staging directory has
\* been promoted and the backing handle is closed; the exit code is then 0
C16_QuitOkAfterRelease ==
  (hp.cmd = "quit" /\ hp.resp > 0) =>
     /\ ~hp.loop /\ ~hp.kmount /\ ~hp.session /\ ~hp.backingFd
     /\ hp.promoted
     /\ hp.pc = "exited" => hp.exit = "zero"

\* a helper that answered "quit", promoted a staged file and exited
C16_Witness ==
  /\ hp.pc = "exited" /\ hp.cmd = "quit" /\ hp.resp = 1 /\ hp.exit = "zero"
  /\ overwriteFS[<<"a">>] = "W"
  /\ ~stagingExists

(* ------------------------ the helper's config file --------------------- *)

\* longest string drawn for a config value
MaxStr == 2

\* characters a path or a mod name can hold
Chars == {"x", "|", "=", "\n"}

ScalarKeys == {"mount_point", "game_dir", "data_dir_name", "overwrite_dir"}

\* the arguments of writeVfsConfig: a plain config with one value drawn, a
\* scalar or a list holding one drawn (first, second) pair, alone or next to
\* a plain pair
Configs ==
  LET plainCfg == [k \in DOMAIN EmptyConfig |->
                     IF k \in ScalarKeys THEN <<"x">> ELSE <<>>]
      plain == <<<<"x">>, <<"x">>>>
      pairs == {<<a, b>> : a \in SeqsUpTo(Chars, MaxStr),
                           b \in SeqsUpTo(Chars, MaxStr - 1)}
      lists == {<<>>} \cup {<<p>> : p \in pairs} \cup {<<p, plain>> : p \in pairs}
                 \cup {<<plain, p>> : p \in pairs}
  IN {[plainCfg EXCEPT ![k] = v] : k \in ScalarKeys, v \in SeqsUpTo(Chars, MaxStr)}
       \cup {[plainCfg EXCEPT !.mods = l] : l \in lists}
       \cup {[plainCfg EXCEPT !.extra_files = l] : l \in lists}

\* out << key << "=" << first << "|" << second << "\n", for each pair
RECURSIVE PairLines(_, _)
PairLines(key, l) ==
  IF l = <<>> THEN <<>>
  ELSE <<key, "=">> \o Head(l)[1] \o <<"|">> \o Head(l)[2] \o <<"\n">>
         \o PairLines(key, Tail(l))

\* the text writeVfsConfig writes: out << key << "=" << value << "\n" for the
\* four scalars, then the mod and extra_file lines
WriteVfsConfigText(cfg) ==
  LET line(key, val) == <<key, "=">> \o val \o <<"\n">>
  IN line("mount_point", cfg.mount_point)
       \o line("game_dir", cfg.game_dir)
       \o line("data_dir_name", cfg.data_dir_name)
       \o line("overwrite_dir", cfg.overwrite_dir)
       \o PairLines("mod", cfg.mods)
       \o PairLines("extra_file", cfg.extra_files)

\* position of the first c in q, 0 when there is none
Find(q, c) ==
  IF \E i \in 1..Len(q) : q[i] = c
  THEN CHOOSE i \in 1..Len(q) : q[i] = c /\ \A j \in 1..(i - 1) : q[j] # c
  ELSE 0

\* std::getline over the whole file
RECURSIVE GetLines(_)
GetLines(text) ==
  IF text = <<>> THEN <<>>
  ELSE LET nl == Find(text, "\n")
       IN IF nl = 0 THEN <<text>>
          ELSE <<SubSeq(text, 1, nl - 1)>> \o GetLines(SubSeq(text, nl + 1, Len(text)))

\* the body of readConfig's loop for one line
ReadLine(cfg, line) ==
  IF line = <<>> \/ line[1] = "#" THEN cfg
  ELSE LET eq == Find(line, "=")
           key == SubSeq(line, 1, eq - 1)
           val == SubSeq(line, eq + 1, Len(line))
           pipe == Find(val, "|")
           pair == <<SubSeq(val, 1, pipe - 1), SubSeq(val, pipe + 1, Len(val))>>
       IN IF eq = 0 THEN cfg
          ELSE IF Len(key) = 1 /\ key[1] \in ScalarKeys THEN [cfg EXCEPT ![key[1]] = val]
          ELSE IF key = <<"mod">> /\ pipe # 0
               THEN [cfg EXCEPT !.mods = Append(cfg.mods, pair)]
          ELSE IF key = <<"extra_file">> /\ pipe # 0
               THEN [cfg EXCEPT !.extra_files = Append(cfg.extra_files, pair)]
          ELSE cfg

RECURSIVE ReadConfig(_, _)
ReadConfig(cfg, lines) ==
  IF lines = <<>> THEN cfg ELSE ReadConfig(ReadLine(cfg, Head(lines)), Tail(lines))

\* the manager writes the config file
WriteVfsConfig(cfg) ==
  /\ wire.pc = "none"
  /\ wire' = [wire EXCEPT !.pc = "written", !.cfg = cfg, !.text = WriteVfsConfigText(cfg)]
  /\ UNCHANGED <<coreVars, hp, ext, inodes, side, mapping>>

\* somebody adds a comment or a line with an unknown key between two lines
EditConfigFile(at, line) ==
  /\ wire.pc = "written" /\ ~wire.edited
  /\ at \in 0..Len(wire.text)
  /\ IF at = 0 THEN TRUE ELSE wire.text[at] = "\n"
  /\ wire' = [wire EXCEPT !.edited = TRUE,
                          !.text = SubSeq(wire.text, 1, at) \o line
                                     \o SubSeq(wire.text, at + 1, Len(wire.text))]
  /\ UNCHANGED <<coreVars, hp, ext, inodes, side, mapping>>

\* the helper reads the config file
HelperReadConfig ==
  /\ wire.pc = "written"
  /\ wire' = [wire EXCEPT !.pc = "read", !.parsed = ReadConfig(EmptyConfig, GetLines(wire.text))]
  /\ UNCHANGED <<coreVars, hp, ext, inodes, side, mapping>>

NextConfig ==
  \/ \E cfg \in Configs : WriteVfsConfig(cfg)
  \/ \E at \in 0..Len(wire.text),
          line \in {<<"#", "x", "\n">>, <<"colour", "=", "x", "\n">>} :
       EditConfigFile(at, line)
  \/ HelperReadConfig

\* a Flatpak manager that has not mounted yet
InitClean ==
  InitWith(BaseInit, MkFS("O", "none", "none"), EmptyFS, FALSE, "clean", TRUE, NoExternal)

SpecConfig == InitClean /\ [][NextConfig]_vars

\* C17 as stated: what readConfig returns for the file writeVfsConfig wrote,
\* with or without added comment and unknown-key lines, is the configuration
\* that was written: the same scalars, the same mods and extra files in order
C17_ConfigRoundTrip == wire.pc = "read" => wire.parsed = wire.cfg

(* ------------- symlinks for mappings outside the data directory -------- *)

\* somebody else changes what is at a destination: a game update writes a
\* real file where a symlink was, a user removes an entry
EnvReplace(d, v) ==
  /\ ext.fs[d] # v
  /\ ext' = [ext EXCEPT !.fs[d] = v, !.last = "env"]
  /\ UNCHANGED <<coreVars, hp, inodes, wire, side, mapping>>

\* an in-process connector whose profile maps files to both destinations,
\* with anything already there
InitDeploy ==
  \E fs0 \in [Dests -> {"none", "file", "dir", "link"}] :
    InitWith(BaseInit, MkFS("O", "none", "none"), EmptyFS, FALSE, "clean", FALSE,
             [NoExternal EXCEPT !.dests = Dests, !.fs = fs0])

NextDeploy ==
  \/ \E m \in Mappings, fail \in MountFailures :
       MountInProcess(m.mods, m.extras, fail, FALSE)
  \/ \E m \in Mappings : RebuildBuild(m.mods, m.extras)
  \/ RebuildLock
  \/ RebuildSwap
  \/ \E io \in IoChoices(stagingFS) : Unmount(io)
  \/ UnmountNotMounted
  \/ \E d \in Dests, v \in {"none", "file", "dir", "link"} : EnvReplace(d, v)

SpecDeploy == InitDeploy /\ [][NextDeploy]_vars

\* C18: no step of the connector changes a destination that holds a regular
\* file or a directory, and after it no such destination is tracked: the
\* deployer skips it and the cleanup removes symlinks only
C18_NonSymlinkUntouched ==
  [][ext'.last # "env" =>
       \A d \in Dests :
         /\ ext.fs[d] \in Real => ext'.fs[d] = ext.fs[d]
         /\ ext'.fs[d] \in Real => d \notin ext'.tracked]_vars

\* a deployment that met a real file at p and made its symlink at q only
C18_Witness ==
  /\ ext.last = "deploy"
  /\ ext.fs["p"] = "file" /\ ext.fs["q"] = "ours"
  /\ ext.tracked = {"q"}

\* C19 as stated: after unmount(), or the destructor that calls it, no
\* symlink made by the deployer is left and nothing is tracked
C19_SymlinksRemovedOnUnmount ==
  ev.op = "unmount" =>
     /\ \A d \in Dests : ext.fs[d] # "ours"
     /\ ext.tracked = {}

(* --------------------------- inodes in a session ----------------------- *)

\* lookups of one path in a session
MaxLookups == 2

\* mo2_lookup of a path of the tree: allocate-or-reuse, the lookup count and
\* the kernel's reference go up by one
LookupInode(p) ==
  /\ m_mounted /\ tree[p] # NoNode
  /\ inodes.cnt[p] < MaxLookups
  /\ inodes' =
       IF inodes.ino[p] = 0
       THEN [inodes EXCEPT !.ino[p] = inodes.next, !.next = inodes.next + 1,
                           !.cnt[p] = 1, !.kref[p] = 1]
       ELSE [inodes EXCEPT !.cnt[p] = inodes.cnt[p] + 1,
                           !.kref[p] = inodes.kref[p] + 1]
  /\ UNCHANGED <<coreVars, hp, ext, wire, side, mapping>>

\* the kernel forgets n references of an inode: no forget is among the
\* operations given to the session, the request is answered for the file
\* system and the table does not see it
KernelForget(p, n) ==
  /\ m_mounted
  /\ n \in 1..inodes.kref[p]
  /\ inodes' = [inodes EXCEPT !.kref[p] = inodes.kref[p] - n]
  /\ UNCHANGED <<coreVars, hp, ext, wire, side, mapping>>

NextInodes ==
  \/ \E m \in Mappings, fail \in HelperFailures :
       MountViaHelper(m.mods, m.extras, fail, FALSE)
  \/ \E io \in IoChoices(stagingFS) : Unmount(io)
  \/ \E p \in Paths : LookupInode(p)
  \/ \E p \in Paths, n \in 1..MaxLookups : KernelForget(p, n)

SpecInodes == InitClean /\ [][NextInodes]_vars

\* C20 as stated: within a session a path keeps its inode while its entry
\* is alive, two paths never have the same inode, no path has the root's
\* inode 1, and a path has an entry exactly while the kernel holds a
\* reference on it (the entry goes when forget brings the count to zero)
C20_InodesStableAndCollected ==
  [][m_mounted /\ m_mounted' =>
       /\ \A p \in Paths :
            inodes.ino[p] # 0 /\ inodes'.ino[p] # 0 => inodes'.ino[p] = inodes.ino[p]
       /\ \A p, q \in Paths :
            p # q /\ inodes'.ino[p] # 0 => inodes'.ino[q] # inodes'.ino[p]
       /\ \A p \in Paths : inodes'.ino[p] # 1
       /\ \A p \in Paths : inodes'.ino[p] # 0 <=> inodes'.kref[p] > 0]_vars

(* ------------------------------ NXM links ------------------------------ *)

\* stands for the largest uint64_t: the largest number toULongLong takes
UInt64Max == 18

\* the mutated conversion: a number too large wraps around
ToULongLongWrapping(t) ==
  LET RECURSIVE val(_)
      val(q) == IF q = <<>> THEN 0
                ELSE 10 * val(SubSeq(q, 1, Len(q) - 1))
                       + (IF q[Len(q)] = "1" THEN 1 ELSE 9)
  IN [ok |-> t # <<>> /\ \A i \in 1..Len(t) : t[i] \in {"1", "9"},
      val |-> val(t) % (UInt64Max + 1)]

\* QString::toULongLong(&ok): decimal digits only, ok is false for an empty
\* text, a text with another character and a number above the largest
ToULongLong(t) ==
  LET RECURSIVE val(_)
      val(q) == IF q = <<>> THEN 0
                ELSE 10 * val(SubSeq(q, 1, Len(q) - 1))
                       + (IF q[Len(q)] = "1" THEN 1 ELSE 9)
      digits == t # <<>> /\ \A i \in 1..Len(t) : t[i] \in {"1", "9"}
  IN IF digits /\ val(t) <= UInt64Max THEN [ok |-> TRUE, val |-> val(t)]
     ELSE [ok |-> FALSE, val |-> 0]

\* URLs as QUrl presents them (scheme, host, path segments between slashes,
\* query items, "" for an absent item): a good link with one part drawn
NxmUrls ==
  LET texts == SeqsUpTo({"1", "9", "x"}, MaxStr)
      good == [scheme |-> "nxm", host |-> "skyrim",
               path |-> <<<<"mods">>, <<"1">>, <<"files">>, <<"9">>>>,
               key |-> "k", expires |-> <<"9">>, user_id |-> ""]
      segs == {<<>>, <<"mods">>, <<"files">>, <<"other">>, <<"1">>}
      paths == {<<<<"mods">>, a, <<"files">>, b>> : a, b \in texts}
                 \cup {[good.path EXCEPT ![i] = g] : i \in 1..4, g \in segs}
                 \cup {SubSeq(good.path, 1, i) \o <<g>> \o SubSeq(good.path, i + 1, 4) :
                         i \in 0..4, g \in segs}
                 \cup {SubSeq(good.path, 1, i - 1) \o SubSeq(good.path, i + 1, 4) :
                         i \in 1..4}
  IN {[good EXCEPT !.scheme = v] : v \in {"nxm", "NXM", "http"}}
       \cup {[good EXCEPT !.host = v] : v \in {"", "skyrim"}}
       \cup {[good EXCEPT !.path = v] : v \in paths}
       \cup {[good EXCEPT !.key = v] : v \in {"", "k"}}
       \cup {[good EXCEPT !.expires = v] : v \in texts}
       \cup {[good EXCEPT !.user_id = v] : v \in {"", "1"}}

\* NxmLink::parse: the link, or nothing
NxmLinkParse(u) ==
  LET parts == SelectSeq(u.path, LAMBDA g : g # <<>>)
      modId == ToULongLong(parts[2])
      fileId == ToULongLong(parts[4])
      expires == ToULongLong(u.expires)
  IN IF u.scheme \notin {"nxm", "NXM"} THEN [ok |-> FALSE]
     ELSE IF u.host = "" THEN [ok |-> FALSE]
     ELSE IF Len(parts) # 4 \/ parts[1] # <<"mods">> \/ parts[3] # <<"files">>
          THEN [ok |-> FALSE]
     ELSE IF ~modId.ok \/ ~fileId.ok THEN [ok |-> FALSE]
     ELSE IF u.key = "" THEN [ok |-> FALSE]
     ELSE IF ~expires.ok THEN [ok |-> FALSE]
     ELSE [ok |-> TRUE, game_domain |-> u.host, mod_id |-> modId.val,
           file_id |-> fileId.val, key |-> u.key, expires |-> expires.val]

\* the handler is given a URL
NxmParse(u) ==
  /\ side.pc = "none"
  /\ side' = [pc |-> "nxm", url |-> u, link |-> NxmLinkParse(u)]
  /\ UNCHANGED <<coreVars, hp, ext, inodes, wire, mapping>>

(* ------------------------- Wine prefix backups ------------------------- *)

\* directories a game root can hold for saves, and two case variants of an
\* INI file; an entry holds "none", the name of the path it was at before
\* the session (an original) or "profile" (copied from the profile)
SaveDirs == {"Saves", "saves", "SaveGames", "savegames"}

IniFiles == {"Prefs.ini", "prefs.ini"}

PrefixNames ==
  SaveDirs \cup {".mo2linux_backup_Saves", ".mo2linux_backup_saves"}
    \cup IniFiles \cup {n \o ".mo2linux_backup" : n \in IniFiles}

\* QString::toLower on the save directory names
ToLower(n) == IF n = "Saves" THEN "saves" ELSE IF n = "SaveGames" THEN "savegames" ELSE n

\* QDir().rename / QFile::rename: fails when the new name exists
Rename(r, a, b) ==
  IF ~r.ok \/ r.fs[a] = "none" THEN r
  ELSE IF r.fs[b] # "none" THEN [r EXCEPT !.ok = FALSE]
  ELSE [r EXCEPT !.fs = [r.fs EXCEPT ![b] = r.fs[a], ![a] = "none"]]

\* restoreBackedUpSaves: both live directories are removed, then each backup
\* that exists is renamed to its live name
RestoreBackedUpSaves(f, liveUpper, liveLower) ==
  LET cleared == [f EXCEPT ![liveUpper] = "none", ![liveLower] = "none"]
  IN Rename(Rename([ok |-> TRUE, fs |-> cleared], ".mo2linux_backup_Saves", liveUpper),
            ".mo2linux_backup_saves", liveLower)

\* restoreBackedUpIni: nothing without a backup, else the live file is
\* removed and the backup renamed to it
RestoreBackedUpIni(f, live) ==
  IF f[live \o ".mo2linux_backup"] = "none" THEN [ok |-> TRUE, fs |-> f]
  ELSE Rename([ok |-> TRUE, fs |-> [f EXCEPT ![live] = "none"]],
              live \o ".mo2linux_backup", live)

\* a valid prefix as a session finds it: no sentinel, any originals
OpenPrefix(S) ==
  /\ side.pc = "none"
  /\ LET f == [n \in PrefixNames |-> IF n \in S THEN n ELSE "none"]
     IN side' = [pc |-> "prefix", fs |-> f, before |-> f, crashed |-> FALSE]
  /\ UNCHANGED <<coreVars, hp, ext, inodes, wire, mapping>>

\* deployProfileSaves(profileSaveDir, gameName, saveRelativePath, true)
DeployProfileSaves(rel) ==
  /\ side.pc = "prefix" /\ ~side.crashed
  /\ LET eff == IF rel = "" THEN "Saves" ELSE rel
         upper == eff
         lower == ToLower(eff)
         f == side.fs
         stale == f[".mo2linux_backup_Saves"] # "none"
                    \/ f[".mo2linux_backup_saves"] # "none"
         r0 == IF stale THEN RestoreBackedUpSaves(f, upper, lower)
               ELSE [ok |-> TRUE, fs |-> f]
         r1 == Rename(r0, upper, ".mo2linux_backup_Saves")
         r2 == Rename(r1, lower, ".mo2linux_backup_saves")
     IN side' = [side EXCEPT
                   !.fs = IF r2.ok THEN [r2.fs EXCEPT ![upper] = "profile"] ELSE r2.fs]
  /\ UNCHANGED <<coreVars, hp, ext, inodes, wire, mapping>>

\* deployProfileIni(sourceIniPath, targetIniPath): every case variant that
\* exists is backed up, then the profile's file is copied to the target
DeployProfileIni(dest) ==
  /\ side.pc = "prefix" /\ ~side.crashed
  /\ LET RECURSIVE backup(_, _)
         backup(r, todo) ==
           IF todo = {} \/ ~r.ok THEN r
           ELSE LET v == CHOOSE n \in todo : TRUE
                    r1 == RestoreBackedUpIni(r.fs, v)
                    r2 == Rename(r1, v, v \o ".mo2linux_backup")
                IN backup(r2, todo \ {v})
         variants == {n \in IniFiles : side.fs[n] # "none"}
         b == backup([ok |-> TRUE, fs |-> side.fs], variants)
         c == IF b.ok /\ dest \notin variants THEN RestoreBackedUpIni(b.fs, dest) ELSE b
     IN side' = [side EXCEPT
                   !.fs = IF c.ok THEN [c.fs EXCEPT ![dest] = "profile"] ELSE c.fs]
  /\ UNCHANGED <<coreVars, hp, ext, inodes, wire, mapping>>

\* the session ends without syncing back; at the next start
\* restoreStaleBackups goes over the prefix
RestoreStaleBackups ==
  /\ side.pc = "prefix"
  /\ LET RECURSIVE inis(_, _)
         inis(f, todo) ==
           IF todo = {} THEN f
           ELSE LET v == CHOOSE n \in todo : TRUE
                IN inis(RestoreBackedUpIni(f, v).fs, todo \ {v})
         f1 == inis(side.fs, {n \in IniFiles : side.fs[n \o ".mo2linux_backup"] # "none"})
         stale == f1[".mo2linux_backup_Saves"] # "none"
                    \/ f1[".mo2linux_backup_saves"] # "none"
         f2 == IF stale THEN RestoreBackedUpSaves(f1, "Saves", "saves").fs ELSE f1
     IN side' = [side EXCEPT !.fs = f2, !.crashed = TRUE]
  /\ UNCHANGED <<coreVars, hp, ext, inodes, wire, mapping>>

(* ----------------------- the NXM listener socket ----------------------- *)

\* what arrives on a connection, in pieces a URL can be cut into: "a" is
\* nxm://skyrim/mods/1, "c" is nxm://skyrim/mods/9, "b" is
\* /files/9?key=k&expires=9, "rn" is a carriage return with its newline
\* and "n" a newline
MaxBytes == 6

SocketBytes == {"a", "c", "b", "rn", "n"}

Newlines == {"rn", "n"}

\* the line as QUrl splits it: a text that begins with "b" has no scheme,
\* a head followed by another head continues the path, and what follows
\* the first "b" continues the value of expires
UrlOf(line) ==
  LET n == IF line[1] = "a" THEN <<"1">> ELSE <<"9">>
      nxm == [scheme |-> "nxm", host |-> "skyrim", path |-> <<<<"mods">>, n>>,
              key |-> "", expires |-> <<>>, user_id |-> ""]
  IN IF line[1] = "b" THEN [nxm EXCEPT !.scheme = "", !.host = "", !.path = <<>>]
     ELSE IF Len(line) = 1 THEN nxm
     ELSE IF line[2] # "b"
          THEN [nxm EXCEPT !.path = <<<<"mods">>, n \o <<"x">>, <<>>, <<"other">>>>]
     ELSE [nxm EXCEPT !.path = <<<<"mods">>, n, <<"files">>, <<"9">>>>,
                      !.key = "k",
                      !.expires = IF Len(line) = 2 THEN <<"9">> ELSE <<"9", "x">>]

\* the mutated test: any buffered byte counts as a line
CanReadAny(buf) == buf # <<>>

\* QLocalSocket::canReadLine: a newline is in the buffer
CanReadLine(buf) == \E i \in 1..Len(buf) : buf[i] \in Newlines

\* readLine().trimmed(): the bytes up to the first newline (all of them when
\* there is none), without the white space at the ends
ReadLineTrimmed(buf) ==
  LET ends == {i \in 1..Len(buf) : buf[i] \in Newlines}
      k == IF ends = {} THEN Len(buf) + 1
           ELSE CHOOSE i \in ends : \A j \in ends : i <= j
  IN [line |-> SubSeq(buf, 1, k - 1), rest |-> SubSeq(buf, k + 1, Len(buf))]

\* processSocketData: every line that can be read is read; an empty one and
\* one that does not parse are passed over, another is emitted
ProcessSocketData(buf0) ==
  LET RECURSIVE loop(_, _)
      loop(buf, out) ==
        IF ~CanReadLine(buf) THEN [buf |-> buf, out |-> out]
        ELSE LET r == ReadLineTrimmed(buf)
                 link == NxmLinkParse(UrlOf(r.line))
             IN IF r.line = <<>> THEN loop(r.rest, out)
                ELSE IF ~link.ok THEN loop(r.rest, out)
                ELSE loop(r.rest, Append(out, link))
  IN loop(buf0, <<>>)

\* onNewConnection: a pending connection is taken and its signals connected
OnNewConnection ==
  /\ side.pc = "none"
  /\ side' = [pc |-> "sock", open |-> TRUE, buf |-> <<>>, rcvd |-> <<>>,
              emitted |-> <<>>, last |-> <<>>]
  /\ UNCHANGED <<coreVars, hp, ext, inodes, wire, mapping>>

\* bytes arrive and readyRead runs processSocketData
SocketReadyRead(chunk) ==
  /\ side.pc = "sock" /\ side.open
  /\ Len(side.rcvd) + Len(chunk) <= MaxBytes
  /\ LET r == ProcessSocketData(side.buf \o chunk)
     IN side' = [side EXCEPT !.buf = r.buf, !.rcvd = @ \o chunk,
                             !.emitted = @ \o r.out, !.last = chunk]
  /\ UNCHANGED <<coreVars, hp, ext, inodes, wire, mapping>>

\* the peer disconnects: the socket is deleted later
SocketDisconnected ==
  /\ side.pc = "sock" /\ side.open
  /\ side' = [side EXCEPT !.open = FALSE]
  /\ UNCHANGED <<coreVars, hp, ext, inodes, wire, mapping>>

NextSide ==
  \/ OnNewConnection
  \/ \E chunk \in SeqsUpTo(SocketBytes, 2) \ {<<>>} : SocketReadyRead(chunk)
  \/ SocketDisconnected
  \/ \E u \in NxmUrls : NxmParse(u)
  \/ \E S \in SUBSET (SaveDirs \cup IniFiles) : OpenPrefix(S)
  \/ \E rel \in {"", "Saves", "SaveGames"} : DeployProfileSaves(rel)
  \/ \E dest \in IniFiles : DeployProfileIni(dest)
  \/ RestoreStaleBackups

SpecSide == InitClean /\ [][NextSide]_vars

C22_BackupsRestored ==
  (side.pc = "prefix" /\ side.crashed) =>
     /\ \A n \in PrefixNames \ (SaveDirs \cup IniFiles) : side.fs[n] = "none"
     /\ \A n \in SaveDirs \cup IniFiles : side.before[n] = n => side.fs[n] = n

(* ----------------------- the order of unmount() ----------------------- *)

\* a connector mounted in process with symlinks outside the mount, kernel
\* requests, and unmount() one call at a time
NextUnmount ==
  \/ \E m \in Mappings : MountInProcess(m.mods, m.extras, "none", FALSE)
  \/ HandlerEnter
  \/ \E r \in Requests : HandlerExit(r)
  \/ UnmountBegin
  \/ \E io \in IoChoices(stagingFS) : UnmountStep(io)
  \/ UnmountNotMounted

SpecUnmount ==
  /\ InitWith(BaseInit, MkFS("O", "none", "none"), EmptyFS, FALSE, "clean", FALSE,
              [NoExternal EXCEPT !.dests = Dests])
  /\ [][NextUnmount]_vars

\* C23: before each call of the in-process unmount(), the calls that come
\* before it in the stated order (exit signal, session unmount, join, session
\* destroy, final promotion, close of the backing handle, clearing of the
\* crash-cleanup mount point, removal of the symlinks) have been made and the
\* later ones have not; from the promotion on no handler is in flight; when
\* unmount() has returned all of them have been made; and unmount() on a
\* connector that is not mounted changes nothing
C23_UnmountOrder ==
  [][LET Stated == <<"exit", "unmount", "join", "destroy", "flush", "close", "crash",
                     "symlinks">>
         Made == [exit |-> TRUE, unmount |-> target' # "fuse", join |-> hdl'.pc = "idle",
                  destroy |-> ~m_session', flush |-> ev'.op = "unmount",
                  close |-> ~m_backingFd', crash |-> ~g_fuseMountPoint',
                  symlinks |-> ext'.tracked = {}]
         NotMade == [Made EXCEPT !.exit = FALSE, !.join = FALSE, !.symlinks = FALSE]
         Before(k) ==
           /\ \A j \in 1..(k - 1) : Made[Stated[j]]
           /\ \A j \in k..Len(Stated) : ~NotMade[Stated[j]]
     IN /\ \A k \in 1..Len(Stated) : mpc' = Stated[k] => Before(k)
        /\ mpc' = "reset" => Before(7)
        /\ (mpc' = "idle" /\ ev'.op = "unmount") => Before(Len(Stated) + 1)
        /\ (ev'.op = "unmount" \/ ~m_session') => hdl'.pc = "idle"
        /\ (~m_mounted /\ mpc = "idle" /\ ev'.op = "unmount")
              => UNCHANGED <<coreVarsButEv, ext>>]_vars

\* unmount() has returned: a file written through the mount was promoted to
\* the overwrite directory and the deployer's symlinks were removed
C23_Witness ==
  /\ mpc = "idle" /\ ev.op = "unmount" /\ ev.staged
  /\ ~m_mounted /\ ~m_session /\ ~m_backingFd /\ ~g_fuseMountPoint
  /\ overwriteFS[<<"d", "b">>] = "W"
  /\ ext.last = "cleanup"

(* --------------------- the helper against the connector ---------------- *)

\* C24 as stated: the tree a mount, a rebuild or a live flush publishes is
\* the tree both hosts build from the same directories, mods and extra
\* files, and the promotion of an unmount or quit leaves the overwrite and
\* staging directories as the one promotion does, whichever host ran it
C24_HelperEquivalent ==
  [][LET cache == ScanDataDir(baseFS)
         InProcess(flush) ==
           IF flush
           THEN LiveFlushTree(cache, m_lastMods', modFS, overwriteFS', m_extraVfsFiles')
           ELSE MountTree(cache, m_lastMods', modFS, overwriteFS', m_extraVfsFiles')
         ViaHelper(flush) ==
           IF flush
           THEN HelperFlushTree(cache, m_lastMods', modFS, overwriteFS', m_extraVfsFiles')
           ELSE MountTree(cache, m_lastMods', modFS, overwriteFS', m_extraVfsFiles')
     IN /\ (~m_mounted /\ m_mounted')
             => tree' = InProcess(FALSE) /\ tree' = ViaHelper(FALSE)
        /\ (mpc = "idle" /\ mpc' = "rebuild_built")
             => newTree' = InProcess(FALSE) /\ newTree' = ViaHelper(FALSE)
        /\ (mpc = "idle" /\ mpc' = "flush_built")
             => newTree' = InProcess(TRUE) /\ newTree' = ViaHelper(TRUE)
        /\ (m_mounted /\ ~m_mounted')
             => \E io \in IoChoices(stagingFS) :
                  LET r == FlushStaging(stagingExists, stagingFS, overwriteFS, io)
                  IN /\ overwriteFS' = r.ov
                     /\ stagingFS' = r.staging.fs
                     /\ stagingExists' = r.staging.exists]_vars

(* ----------------------------- mapping sets ---------------------------- *)

\* the longest mapping set handed over
MaxMappings == 2

\* the data directory /D and the overwrite directory /o; a mod directory
\* /m, a directory below overwrite and one beside it whose name begins the
\* same way, a file /n; destinations in, below, beside and outside /D
MappingSets ==
  LET E(dir, src, dst) == [isDirectory |-> dir, source |-> src, destination |-> dst]
  IN SeqsUpTo({E(TRUE, <<"/", "m">>, <<"/", "D">>),
               E(TRUE, <<"/", "m", "/">>, <<"/", "D", "/", "s">>),
               E(TRUE, <<"/", "o", "/", "s">>, <<"/", "D">>),
               E(TRUE, <<"/", "o", "x">>, <<"/", "D", "/">>),
               E(TRUE, <<"/", "m">>, <<"/", "D", "x">>),
               E(FALSE, <<"/", "n">>, <<"/", "D", "/", "s">>),
               E(FALSE, <<"/", "n">>, <<"/", "q">>)}, MaxMappings)

\* QDir::cleanPath on these paths: a separator before a separator and a
\* trailing separator are dropped
CleanPath(p) ==
  LET keep == {i \in 1..Len(p) :
                 ~(p[i] = "/" /\ i > 1 /\ (i = Len(p) \/ p[i + 1] = "/"))
                 /\ ~(p[i] = "/" /\ i = 1 /\ Len(p) > 1 /\ p[2] = "/")}
      nth(k) == CHOOSE i \in keep : Cardinality({j \in keep : j <= i}) = k
  IN [k \in 1..Cardinality(keep) |-> p[nth(k)]]

\* dst == dir || dst.startsWith(dir + "/"), on cleaned paths
TargetsDir(p, dir) ==
  \/ p = dir
  \/ Len(p) > Len(dir) /\ SubSeq(p, 1, Len(dir) + 1) = dir \o <<"/">>

\* QFileInfo(p).fileName(): what follows the last separator
FileName(p) ==
  LET at == CHOOSE i \in 0..Len(p) :
              /\ i = 0 \/ p[i] = "/"
              /\ \A j \in (i + 1)..Len(p) : p[j] # "/"
  IN SubSeq(p, at + 1, Len(p))

\* a set of seen sources that takes nothing in
InsertNothing(seen, src) == seen

\* seen.insert(srcStd)
Insert(seen, src) == seen \cup {src}

\* buildModsFromMapping: the (name, source) pairs handed to the VFS
BuildModsFromMapping(map, dataDir, overwriteDir) ==
  LET upTo[i \in 0..Len(map)] ==
        IF i = 0 THEN [mods |-> <<>>, seen |-> {}]
        ELSE LET src == CleanPath(map[i].source)
                 dst == CleanPath(map[i].destination)
             IN IF \/ ~map[i].isDirectory
                   \/ ~TargetsDir(dst, CleanPath(dataDir))
                   \/ TargetsDir(src, CleanPath(overwriteDir))
                   \/ src \in upTo[i - 1].seen
                THEN upTo[i - 1]
                ELSE [mods |-> Append(upTo[i - 1].mods,
                                      [name |-> FileName(src), src |-> src]),
                      seen |-> Insert(upTo[i - 1].seen, src)]
  IN upTo[Len(map)].mods

\* an extra-file list that is carried over
KeepExtras(old) == old

\* m_extraVfsFiles.clear()
ClearExtras(old) == <<>>

\* the loop of deployExternalMappings: the file-level mappings into the data
\* directory become extra files, the mappings that do not target the data
\* directory go to the symlink branch (links: their cleaned destinations)
ClassifyMappings(map, dataDir) ==
  LET data == CleanPath(dataDir)
      upTo[i \in 0..Len(map)] ==
        IF i = 0 THEN [extras |-> <<>>, links |-> <<>>]
        ELSE LET src == CleanPath(map[i].source)
                 dst == CleanPath(map[i].destination)
                 rel == IF dst # data /\ TargetsDir(dst, data)
                        THEN SubSeq(dst, Len(data) + 2, Len(dst))
                        ELSE FileName(src)
             IN IF TargetsDir(dst, data)
                THEN IF map[i].isDirectory THEN upTo[i - 1]
                     ELSE [upTo[i - 1] EXCEPT
                             !.extras = Append(@, [rel |-> rel, real |-> src])]
                ELSE [upTo[i - 1] EXCEPT !.links = Append(@, dst)]
  IN upTo[Len(map)]

\* updateMapping is called with a mapping set
NewMapping(m) ==
  /\ mapping.pc \in {"none", "deployed"}
  /\ mapping' = [NoMapping EXCEPT !.pc = "set", !.map = m]
  /\ UNCHANGED <<coreVars, hp, ext, inodes, wire, side>>

\* auto mods = buildModsFromMapping(mapping, dataDirPath, overwriteDir)
BuildMods ==
  /\ mapping.pc = "set"
  /\ m_lastMods' = BuildModsFromMapping(mapping.map, <<"/", "D">>, <<"/", "o">>)
  /\ mapping' = [mapping EXCEPT !.pc = "built"]
  /\ UNCHANGED <<hp, ext, inodes, wire, side, target, flatpak, diskVars, m_mounted,
                 m_extraVfsFiles, m_baseFileCache, m_cachedDataDirPath, m_backingFd, m_session,
                 m_stagingDir, m_overwriteDir, m_helperProcess, g_fuseMountPoint, helperVars, tree,
                 newTree, lockW, mpc, hdl, handles, ops, unlinked, ev>>

\* deployExternalMappings(mapping, dataDirPath): the cleanup, the extra-file
\* list cleared and filled, the symlinks at the destinations outside
DeployMappings ==
  /\ mapping.pc = "built"
  /\ LET c == ClassifyMappings(mapping.map, <<"/", "D">>)
     IN /\ m_extraVfsFiles' = ClearExtras(m_extraVfsFiles) \o c.extras
        /\ ext' = DeployExternalMappings(
                    ext, {d \in ext.dests : \E k \in 1..Len(c.links) : c.links[k] = <<"/", d>>})
        /\ mapping' = [mapping EXCEPT !.pc = "deployed", !.links = c.links,
                                      !.before = m_extraVfsFiles]
  /\ UNCHANGED <<hp, inodes, wire, side, target, flatpak, diskVars, m_mounted,
                 m_lastMods, m_baseFileCache, m_cachedDataDirPath, m_backingFd, m_session,
                 m_stagingDir, m_overwriteDir, m_helperProcess, g_fuseMountPoint, helperVars, tree,
                 newTree, lockW, mpc, hdl, handles, ops, unlinked, ev>>

NextMapping ==
  \/ \E m \in MappingSets : NewMapping(m)
  \/ BuildMods
  \/ DeployMappings

SpecMapping ==
  /\ InitWith(BaseInit, MkFS("O", "none", "none"), EmptyFS, FALSE, "clean", FALSE,
              [NoExternal EXCEPT !.dests = Dests])
  /\ [][NextMapping]_vars

C26_ModsFromMapping ==
  mapping.pc = "built" =>
    LET map == mapping.map
        src(i) == CleanPath(map[i].source)
        Under(p, d) == \/ p = d
                       \/ /\ Len(p) > Len(d) + 1
                          /\ \A j \in 1..Len(d) : p[j] = d[j]
                          /\ p[Len(d) + 1] = "/"
        Mods == {i \in 1..Len(map) :
                   /\ map[i].isDirectory
                   /\ Under(CleanPath(map[i].destination), <<"/", "D">>)
                   /\ ~Under(src(i), <<"/", "o">>)}
        First == {i \in Mods : \A j \in Mods : j < i => src(j) # src(i)}
        Kth(k) == CHOOSE i \in First : Cardinality({j \in First : j <= i}) = k
    IN /\ Len(m_lastMods) = Cardinality(First)
       /\ \A k \in 1..Len(m_lastMods) : m_lastMods[k].src = src(Kth(k))

\* two directory-level mappings into the data directory name the same
\* source: one mod is returned
C26_Witness ==
  /\ mapping.pc = "built"
  /\ Len(mapping.map) = 2
  /\ \A i \in 1..2 : mapping.map[i].isDirectory
                     /\ CleanPath(mapping.map[i].source) = <<"/", "m">>
                     /\ mapping.map[i].destination[2] = "D"
                     /\ CleanPath(mapping.map[i].destination) # <<"/", "D", "x">>
  /\ mapping.map[1] # mapping.map[2]
  /\ m_lastMods = <<[name |-> <<"m">>, src |-> <<"/", "m">>]>>

(* ------------------------- the base catalog --------------------------- *)

\* a game update adds or removes a file of the data directory while nothing
\* is mounted on it
GameUpdate ==
  /\ mpc = "idle" /\ ~m_mounted
  /\ baseFS' = [baseFS EXCEPT ![<<"d", "b">>] = IF @ = "none" THEN "B" ELSE "none"]
  /\ UNCHANGED <<auxVars, ext, target, flatpak, modFS, overwriteFS, stagingFS,
                 stagingExists, m_mounted, m_lastMods, m_extraVfsFiles,
                 m_baseFileCache, m_cachedDataDirPath, m_backingFd, m_session,
                 m_stagingDir, m_overwriteDir, m_helperProcess, g_fuseMountPoint, helperVars, tree,
                 newTree, lockW, mpc, hdl, handles, ops, unlinked, ev>>

\* mount/unmount cycles in process on two data directories, with live
\* flushes and rebuilds (on the overwrite directory of the mount or on one in
\* another directory), and game updates between the sessions
NextScan ==
  \/ \E dir \in {"d1", "d2"}, m \in Mappings, fail \in {"none", "backing"} :
       MountInProcessAt(dir, m.mods, m.extras, fail, FALSE)
  \/ \E io \in IoChoices(stagingFS) : Unmount(io)
  \/ \E ov \in {"p1", "p2"}, m \in Mappings : RebuildBuildWith(ov, m.mods, m.extras)
  \/ RebuildLock
  \/ RebuildSwap
  \/ \E io \in IoChoices(stagingFS) : LiveFlushBuild(io)
  \/ LiveFlushLock
  \/ LiveFlushSwap
  \/ GameUpdate

SpecScan ==
  /\ InitWith(BaseInit, MkFS("O", "none", "none"), EmptyFS, FALSE, "clean", FALSE,
              NoExternal)
  /\ [][NextScan]_vars

\* C27: the cached catalog and its path change only in a mount() call of a
\* connector that is not mounted and has no mount of its own on the
\* directory; that call scans the directory it is given if and only if the
\* cache is empty or was made for another path, and otherwise leaves the
\* cache as it is; rebuild and live flush build from the cached catalog
C27_ScanOnlyWhenNeeded ==
  [][LET MountCall == /\ ~m_mounted /\ mpc = "idle"
                      /\ baseFS' = baseFS /\ ev'.op = "mount"
     IN /\ (m_baseFileCache' # m_baseFileCache
              \/ m_cachedDataDirPath' # m_cachedDataDirPath)
             => MountCall /\ target # "fuse"
        /\ MountCall =>
             IF m_baseFileCache = EmptyFS \/ ev'.dir # m_cachedDataDirPath
             THEN /\ m_baseFileCache' = ScanDataDir(DirFS(ev'.dir))
                  /\ m_cachedDataDirPath' = ev'.dir
             ELSE /\ m_baseFileCache' = m_baseFileCache
                  /\ m_cachedDataDirPath' = m_cachedDataDirPath
        /\ (mpc = "idle" /\ mpc' = "rebuild_built")
             => newTree' = MountTree(m_baseFileCache, m_lastMods', modFS, overwriteFS,
                                     m_extraVfsFiles')
        /\ (mpc = "idle" /\ mpc' = "flush_built")
             => newTree' = LiveFlushTree(m_baseFileCache, m_lastMods, modFS,
                                         overwriteFS', m_extraVfsFiles)]_vars

\* the game was updated between two sessions on the same data directory: the
\* second mount serves the catalog of the first
C27_Witness ==
  /\ m_mounted /\ ev.op = "mount" /\ ev.dir = "d1"
  /\ m_cachedDataDirPath = "d1"
  /\ m_baseFileCache # ScanDataDir(baseFS)
  /\ tree[<<"d", "b">>].kind = "file" /\ baseFS[<<"d", "b">>] = "none"

(* --------------------- the crash-cleanup mount point ------------------- *)

\* C28: the crash-cleanup buffer holds the mount point exactly when the
\* connector is mounted, in process or through the helper; it is empty after
\* a mount() that failed and after unmount()
C28_CrashCleanupPoint ==
  /\ g_fuseMountPoint <=> m_mounted
  /\ (ev.op = "mount" /\ ev.res = "threw") => ~g_fuseMountPoint
  /\ ev.op = "unmount" => ~g_fuseMountPoint

\* the helper was started and scanned, but did not report "mounted":
\* mount() failed and the buffer is empty
C28_Witness ==
  /\ ev.op = "mount" /\ ev.fail = "nomounted"
  /\ ~m_mounted /\ ~g_fuseMountPoint
  /\ m_baseFileCache = EmptyFS /\ h_baseFileCache # EmptyFS

(* ------------------ the live flush, statement by statement ------------- *)

\* tree.swap(newTree) and the end of the lock's scope
LiveFlushUnlock ==
  /\ mpc = "flush_locked"
  /\ tree' = newTree
  /\ newTree' = EmptyTree
  /\ lockW' = FALSE
  /\ mpc' = "flush_unlocked"
  /\ UNCHANGED <<auxVars, ext, target, flatpak, diskVars, m_mounted, m_lastMods,
                 m_extraVfsFiles, m_baseFileCache, m_cachedDataDirPath, m_backingFd,
                 m_session, m_stagingDir, m_overwriteDir, m_helperProcess, g_fuseMountPoint,
                 helperVars, hdl, handles, ops, unlinked, ev>>

\* context->overwrite = std::make_unique<OverwriteManager>(...): the old
\* manager is destroyed; a handler in flight that holds it goes on with the
\* freed object, and either gets through or does not
LiveFlushReplace ==
  /\ mpc = "flush_unlocked"
  /\ mpc' = "idle"
  /\ ev' = [ev EXCEPT !.res = "ok"]
  /\ \E pc \in IF hdl.pc = "in" THEN {"in", "freed"} ELSE {hdl.pc} :
       hdl' = [hdl EXCEPT !.pc = pc]
  /\ UNCHANGED <<auxVars, ext, target, flatpak, diskVars, m_mounted, m_lastMods,
                 m_extraVfsFiles, m_baseFileCache, m_cachedDataDirPath, m_backingFd,
                 m_session, m_stagingDir, m_overwriteDir, m_helperProcess, g_fuseMountPoint,
                 helperVars, tree, newTree, lockW, handles, ops, unlinked>>

\* a mounted connector, kernel requests, and live flushes one statement at a
\* time
NextRace ==
  \/ \E m \in Mappings : MountInProcess(m.mods, m.extras, "none", FALSE)
  \/ HandlerEnter
  \/ \E r \in Requests : HandlerExit(r)
  \/ \E io \in IoChoices(stagingFS) : LiveFlushBuild(io)
  \/ LiveFlushLock
  \/ LiveFlushUnlock
  \/ LiveFlushReplace

SpecRace ==
  /\ InitWith(BaseInit, MkFS("O", "none", "none"), EmptyFS, FALSE, "clean", FALSE,
              NoExternal)
  /\ [][NextRace]_vars

\* C29 as stated: a live flush replaces the tree only while it holds the
\* lock exclusively, and replaces the OverwriteManager only while no handler
\* is running
C29_OnlyTreeMutatedUnderLock ==
  [][/\ (mpc = "flush_locked" /\ tree' = newTree /\ mpc' # mpc) => lockW
     /\ (mpc = "flush_unlocked" /\ mpc' = "idle") => hdl.pc = "idle"]_vars

(* ------------------------ the staging directory ------------------------ *)

\* C30 as stated: the staging directory exists when mount() has succeeded
\* and when a live flush has returned, and is empty after the promotion of
\* the flush; it does not exist when unmount() has returned; and when a
\* rebuild of a connector mounted in process has returned it is in the
\* directory of the overwrite directory in use
C30_StagingLifecycle ==
  [][/\ (~m_mounted /\ m_mounted') => stagingExists'
     /\ (mpc = "idle" /\ mpc' = "flush_built") => stagingExists' /\ stagingFS' = EmptyFS
     /\ (mpc = "flush_locked" /\ mpc' = "idle") => stagingExists'
     /\ (m_mounted /\ ~m_mounted') => ~stagingExists'
     /\ (mpc = "rebuild_locked" /\ mpc' = "idle" /\ ~m_helperProcess)
          => m_stagingDir' = m_overwriteDir']_vars

(* ------------------------- statement C31 ------------------------------- *)

\* C31: what the listener has emitted for a connection is, in the order of
\* arrival, the link of every line whose newline has arrived and that is,
\* white space at its ends aside, not empty and a valid nxm URL; the bytes
\* after the last newline are kept, and the handler leaves the connection
\* open
C31_SocketDispatch ==
  side.pc = "sock" =>
    LET RECURSIVE lines(_)
        lines(q) ==
          LET ends == {i \in 1..Len(q) : q[i] \in {"rn", "n"}}
              k == CHOOSE i \in ends : \A j \in ends : i <= j
          IN IF ends = {} THEN <<>>
             ELSE <<SubSeq(q, 1, k - 1)>> \o lines(SubSeq(q, k + 1, Len(q)))
        RECURSIVE tail(_)
        tail(q) == IF q = <<>> \/ q[Len(q)] \in {"rn", "n"} THEN <<>>
                   ELSE Append(tail(SubSeq(q, 1, Len(q) - 1)), q[Len(q)])
        good == SelectSeq(lines(side.rcvd),
                          LAMBDA l : l # <<>> /\ NxmLinkParse(UrlOf(l)).ok)
    IN /\ Len(side.emitted) = Len(good)
       /\ \A i \in 1..Len(good) : side.emitted[i] = NxmLinkParse(UrlOf(good[i]))
       /\ side.buf = tail(side.rcvd)

\* a URL that arrived in two pieces after an invalid and an empty line has
\* been emitted, once, when its newline arrived
C31_Witness ==
  /\ side.pc = "sock"
  /\ side.rcvd = <<"b", "n", "rn", "c", "b">> \o <<"n">>
  /\ side.last = <<"b", "n">>
  /\ Len(side.emitted) = 1 /\ side.emitted[1].mod_id = 9

(* -------------- live flush against writes through the mount ------------ *)

\* every rename of the promotion succeeds
RenameAll == [p \in Paths |-> "rename"]

\* what the loop of flushStaging leaves in the staging directory: the files
\* it moved are gone, the directories and the files it could not move stay
StagingAfterLoop(st, ov, io) ==
  [p \in Paths |-> IF Moved(st, ov, io, p) THEN "none" ELSE st[p]]

\* the descriptors after the loop: a renamed staging file takes its
\* descriptors with it, a copied one is unlinked, a replaced overwrite file
\* is unlinked
FdAfterLoop(h, st, ov, io) ==
  IF ~h.open \/ h.loc = NoSrc THEN h
  ELSE IF h.loc.root = "staging" /\ Moved(st, ov, io, h.loc.path)
    THEN IF io[h.loc.path] = "rename" THEN [h EXCEPT !.loc = Src("overwrite", 0, h.loc.path)]
         ELSE Detached(st[h.loc.path], h.wr)
  ELSE IF h.loc.root = "overwrite" /\ Moved(st, ov, io, h.loc.path)
          /\ io[h.loc.path] = "rename"
    THEN Detached(ov[h.loc.path], h.wr)
  ELSE h

\* flushStagingLive() in the connector, the loop of flushStaging: no lock is
\* held, the kernel handlers go on
LiveFlushLoop(io) ==
  /\ mpc = "idle" /\ m_mounted /\ ~m_helperProcess
  /\ m_stagingDir # "" /\ m_overwriteDir # "" /\ stagingExists
  /\ overwriteFS' = PromoteInto(stagingFS, overwriteFS, io)
  /\ stagingFS' = StagingAfterLoop(stagingFS, overwriteFS, io)
  /\ handles' = [i \in 1..MaxHandles |->
                   FdAfterLoop(handles[i], stagingFS, overwriteFS, io)]
  /\ mpc' = "flush_loop"
  /\ ev' = FlushEvent("flush", "loop", stagingExists, io)
  /\ UNCHANGED <<auxVars, ext, target, flatpak, baseFS, modFS, stagingExists, m_mounted,
                 m_lastMods, m_extraVfsFiles, m_baseFileCache, m_cachedDataDirPath,
                 m_backingFd, m_session, m_stagingDir, m_overwriteDir, m_helperProcess,
                 g_fuseMountPoint, helperVars, tree, newTree, lockW, hdl, ops, unlinked>>

\* fs::remove_all(staging) with whatever the directory holds by now, the
\* directory re-created, and the new tree built from the overwrite directory
LiveFlushRemoveAll ==
  /\ mpc = "flush_loop"
  /\ stagingFS' = StagingAfterFlush(stagingFS).fs
  /\ stagingExists' = TRUE
  /\ handles' = [i \in 1..MaxHandles |->
                   IF handles[i].open /\ handles[i].loc # NoSrc
                      /\ handles[i].loc.root = "staging"
                   THEN Detached(stagingFS[handles[i].loc.path], handles[i].wr)
                   ELSE handles[i]]
  /\ newTree' = LiveFlushTree(m_baseFileCache, m_lastMods, modFS, overwriteFS,
                              m_extraVfsFiles)
  /\ mpc' = "flush_built"
  /\ ev' = [ev EXCEPT !.res = "promoted"]
  /\ UNCHANGED <<auxVars, ext, target, flatpak, baseFS, modFS, overwriteFS, m_mounted,
                 m_lastMods, m_extraVfsFiles, m_baseFileCache, m_cachedDataDirPath,
                 m_backingFd, m_session, m_stagingDir, m_overwriteDir, m_helperProcess,
                 g_fuseMountPoint, helperVars, tree, lockW, hdl, ops, unlinked>>

\* a connector mounted in process, kernel requests, live flushes whose
\* promotion is one step and whose removal of the staging directory is the
\* next, and unmount; every rename succeeds
NextLost ==
  \/ \E m \in Mappings : MountInProcess(m.mods, m.extras, "none", FALSE)
  \/ HandlerEnter
  \/ \E r \in Requests : HandlerExit(r)
  \/ LiveFlushLoop(RenameAll)
  \/ LiveFlushRemoveAll
  \/ LiveFlushLock
  \/ LiveFlushSwap
  \/ Unmount(RenameAll)

SpecLost ==
  /\ InitWith(BaseInit, MkFS("O", "none", "none"), EmptyFS, FALSE, "clean", FALSE,
              NoExternal)
  /\ [][NextLost]_vars

\* C32 as stated: a step of the lifecycle thread (a live flush, unmount)
\* takes a file out of the staging directory only by putting it, with its
\* content, at the same path of the overwrite directory
C32_NoWriteLost ==
  [][(mpc' # mpc \/ m_mounted' # m_mounted) =>
       \A p \in Paths :
         (IsFile(stagingFS[p]) /\ stagingFS'[p] # stagingFS[p])
           => overwriteFS'[p] = stagingFS[p]]_vars

(* ------------- the published tree during a live flush ------------------ *)

\* C33 as stated: while mounted, every file node of the published tree
\* whose source is in the staging directory refers to a file that exists
C33_StagingNodesExist ==
  m_mounted =>
    \A p \in Paths :
      (tree[p].kind = "file" /\ tree[p].src.root = "staging")
        => IsFile(stagingFS[tree[p].src.path])

(* ------------- session writes across a live rebuild -------------------- *)

\* a game directory without a root file a, nothing in overwrite; a connector
\* mounted in process, kernel requests, rebuilds with and without a mod, no
\* extra files, and unmount
NextSession ==
  \/ \E mods \in {<<>>, <<2>>} : MountInProcess(mods, <<>>, "none", FALSE)
  \/ HandlerEnter
  \/ \E r \in Requests : HandlerExit(r)
  \/ \E mods \in {<<>>, <<2>>} : RebuildBuild(mods, <<>>)
  \/ RebuildLock
  \/ RebuildSwap
  \/ Unmount(RenameAll)

SpecSession ==
  /\ InitWith(MkFS("none", "dir", "B"), EmptyFS, EmptyFS, FALSE, "clean", FALSE,
              NoExternal)
  /\ [][NextSession]_vars

\* C34 as stated: when a rebuild swaps its tree in, every path that the
\* published tree showed from the staging directory (a file whose source is
\* the staging file, a directory made in staging) is still visible, a file
\* with the content it has in staging
C34_StagedVisibleAfterRebuild ==
  [][(mpc = "rebuild_locked" /\ mpc' = "idle") =>
       \A p \in Paths :
         /\ (tree[p].kind = "file" /\ tree[p].src = Src("staging", 0, p)
               /\ IsFile(stagingFS[p]))
              => /\ tree'[p].kind = "file"
                 /\ ReadSrc(tree'[p].src, baseFS, modFS, overwriteFS, stagingFS)
                      = stagingFS[p]
         /\ (tree[p].kind = "dir" /\ stagingFS[p] = "dir")
              => tree'[p].kind = "dir"]_vars

(* ------------- directory mappings beside the data directory ------------ *)

\* the game directory is /, its data directory /D; /r is a directory of
\* files for the game directory that has a file x and a directory D with a
\* file a, /s one that has the file x only
SourceTree(src) ==
  IF src = <<"/", "r">>
  THEN <<[rel |-> <<"x">>, kind |-> "file"], [rel |-> <<"D">>, kind |-> "dir"],
         [rel |-> <<"D", "/", "a">>, kind |-> "file"]>>
  ELSE IF src = <<"/", "s">> THEN <<[rel |-> <<"x">>, kind |-> "file"]>>
  ELSE <<>>

\* directory-level mappings to the game directory and to a directory /q
RootMappingSets ==
  LET E(src, dst) == [isDirectory |-> TRUE, source |-> src, destination |-> dst]
  IN SeqsUpTo({E(<<"/", "r">>, <<"/">>), E(<<"/", "r">>, <<"/", "q">>),
               E(<<"/", "s">>, <<"/">>), E(<<"/", "s", "/">>, <<"/", "q">>)},
              MaxMappings)

\* fs::path(dst) / rel
JoinPath(dst, rel) == IF dst = <<"/">> THEN dst \o rel ELSE dst \o <<"/">> \o rel

\* the path below the data directory /D as the overlay names it
MountRel(path) == SelectSeq(SubSeq(path, 4, Len(path)), LAMBDA ch : ch # "/")

\* what is at a path: the game directory and the data directory exist, a
\* path below the data directory is an entry of it ("R" a symlink of the
\* deployer), another path holds what the deployer has made there
EntryAt(path, base, made) ==
  IF path \in {<<"/">>, <<"/", "D">>} THEN "dir"
  ELSE IF TargetsDir(path, <<"/", "D">>)
       THEN IF MountRel(path) \in Paths THEN base[MountRel(path)] ELSE "none"
  ELSE IF \E e \in made : e.path = path
       THEN (CHOOSE e \in made : e.path = path).kind
  ELSE "none"

\* the symlink branch of deployExternalMappings for one directory-level
\* mapping: the walk over the source tree, a directory made for a directory
\* entry, a symlink for a file entry unless a real file is in the way
DeployTree(src, dst, base0, made0) ==
  LET es == SourceTree(src)
      put(acc, path, kind) ==
        [base |-> IF TargetsDir(path, <<"/", "D">>) /\ path # <<"/", "D">>
                     /\ MountRel(path) \in Paths
                  THEN [acc.base EXCEPT ![MountRel(path)] = IF kind = "dir" THEN "dir" ELSE "R"]
                  ELSE acc.base,
         made |-> {e \in acc.made : e.path # path} \cup {[path |-> path, kind |-> kind]}]
      upTo[i \in 0..Len(es)] ==
        IF i = 0 THEN [base |-> base0, made |-> made0]
        ELSE LET acc == upTo[i - 1]
                 dest == JoinPath(dst, es[i].rel)
                 at == EntryAt(dest, acc.base, acc.made)
             IN IF es[i].kind = "dir"
                THEN IF at = "none" THEN put(acc, dest, "dir") ELSE acc
                ELSE IF at \notin {"none", "R", "ours"} THEN acc
                ELSE put(acc, dest, "ours")
  IN upTo[Len(es)]

\* deployExternalMappings for a set of directory-level mappings beside the
\* data directory: the cleanup (a tracked symlink is removed), the list of
\* extra files cleared, then the mappings in order
DeployMappingTree ==
  /\ mapping.pc = "built" /\ ~m_mounted
  /\ LET c == ClassifyMappings(mapping.map, <<"/", "D">>)
         clean == [p \in Paths |-> IF baseFS[p] = "R" THEN "none" ELSE baseFS[p]]
         upTo[i \in 0..Len(mapping.map)] ==
           IF i = 0 THEN [base |-> clean, made |-> {}]
           ELSE DeployTree(CleanPath(mapping.map[i].source),
                           CleanPath(mapping.map[i].destination),
                           upTo[i - 1].base, upTo[i - 1].made)
         r == upTo[Len(mapping.map)]
     IN /\ m_extraVfsFiles' = ClearExtras(m_extraVfsFiles) \o c.extras
        /\ baseFS' = r.base
        /\ mapping' = [pc |-> "deployed", map |-> mapping.map, links |-> c.links,
                       before |-> m_extraVfsFiles, made |-> r.made]
  /\ ext' = CleanupExternalMappings(ext)
  /\ UNCHANGED <<hp, inodes, wire, side, target, flatpak, modFS, overwriteFS, stagingFS,
                 stagingExists, m_mounted, m_lastMods, m_baseFileCache,
                 m_cachedDataDirPath, m_backingFd, m_session, m_stagingDir, m_overwriteDir,
                 m_helperProcess, g_fuseMountPoint, helperVars, tree, newTree, lockW, mpc,
                 hdl, handles, ops, unlinked, ev>>

\* updateMapping on a connector that is not mounted: the mods, the
\* deployment, then mount(), which may fail
NextRoot ==
  \/ \E m \in RootMappingSets : ~m_mounted /\ NewMapping(m)
  \/ BuildMods
  \/ DeployMappingTree
  \/ \E fail \in {"none", "backing"} :
       /\ mapping.pc = "deployed"
       /\ MountInProcess(m_lastMods, m_extraVfsFiles, fail, FALSE)

SpecRoot ==
  /\ \E a \in {"B", "none"} :
       InitWith(MkFS(a, "dir", "B"), MkFS("O", "none", "none"), EmptyFS, FALSE, "clean",
                FALSE, NoExternal)
  /\ [][NextRoot]_vars

\* C35 as stated: nothing deployExternalMappings has made (a directory, a
\* symlink) is at a path below the data directory, and the base catalog of
\* a mount that follows holds no symlink of the deployer
C35_NothingMadeInDataDir ==
  mapping.pc = "deployed" =>
    /\ \A e \in mapping.made :
         ~(Len(e.path) > 3 /\ SubSeq(e.path, 1, 3) = <<"/", "D", "/">>)
    /\ \A p \in Paths : baseFS[p] # "R"

(* ---------------- the responses the manager accepts -------------------- *)

\* a Flatpak manager and its helper, the manager the only writer of the
\* helper's stdin: mount, rebuilds and flushes that are answered or time
\* out, unmount
NextReply ==
  \/ \E m \in Mappings : MgrStartHelper(m.mods, m.extras)
  \/ HelperStartup("none")
  \/ MgrMounted
  \/ \E cmd \in {"rebuild", "flush"}, m \in Mappings : MgrSend(cmd, m.mods, m.extras)
  \/ MgrGotOk
  \/ MgrTimeout
  \/ MgrSendQuit
  \/ MgrUnmountFinish
  \/ HelperRead
  \/ HelperRebuild
  \/ HelperFlush(RenameAll)
  \/ HelperQuit
  \/ HelperShutdownStep(RenameAll)
  \/ HelperExit

SpecReply == InitHelper /\ [][NextReply]_vars

\* C36 as stated: when the manager takes an "ok" as the result of the
\* command it sent last, the helper has read that command and finished it,
\* and the "ok" taken is the one written last
C36_ResponseMatchesCommand ==
  [][(hp.mgr \in {"wait_rebuild", "wait_flush"} /\ hp'.mgr = "idle" /\ ev'.res = "ok") =>
       /\ hp.stdin = <<>>
       /\ hp.pc = "loop"
       /\ Len(hp.pipe) = 1]_vars

(* --------------- the calls of a mount, one at a time ------------------- *)

\* what a mount left behind at the target shows in place of the data
\* directory
StaleFS == MkFS("none", "dir", "S")

\* what a scan or an open of the data directory path reaches
SeenAt(t) == IF t = "listed" THEN "overlay" ELSE "base"

SeenFS(t) == IF t = "listed" THEN StaleFS ELSE baseFS

\* the calls of mount() in process, in the order of the code: the check of
\* the data directory, tryCleanupStaleMount, the staging directory, the
\* scan, the backing handle, then tree, session, mount and loop thread
MountOrder == <<"exists", "cleanup", "staging", "scan", "backing", "session">>

\* the calls of the helper's main() after readConfig
HelperMainOrder == <<"exists", "staging", "scan", "backing", "cleanup", "session">>

\* a mount begins; canClear says whether an unmount command can clear what
\* is at the target
StartEvent(op, canClear) ==
  [op |-> op, res |-> "", calls |-> <<>>, canClear |-> canClear, scanned |-> "",
   opened |-> ""]

\* mount() in the connector's own process, up to the check of the data
\* directory
MountBegin(mods, canClear) ==
  /\ mpc = "idle" /\ ~m_mounted /\ ~flatpak /\ hp.pc # "main"
  /\ m_overwriteDir' = "p1"
  /\ m_lastMods' = mods
  /\ mpc' = "mounting"
  /\ ev' = StartEvent("mount", canClear)
  /\ UNCHANGED <<auxVars, ext, target, flatpak, diskVars, m_mounted, m_extraVfsFiles,
                 m_baseFileCache, m_cachedDataDirPath, m_backingFd, m_session,
                 m_stagingDir, m_helperProcess, g_fuseMountPoint, helperVars, tree,
                 newTree, lockW, hdl, handles, ops, unlinked>>

\* the next call of mount()
MountCall ==
  /\ mpc = "mounting" /\ ev.op = "mount"
  /\ LET call == MountOrder[Len(ev.calls) + 1]
         threw == call = "exists" /\ target = "stale"
         last == call = "session"
         scans == call = "scan" /\ NeedsScan(m_baseFileCache, m_cachedDataDirPath, "d1")
     IN /\ mpc' = IF threw \/ last THEN "idle" ELSE "mounting"
        /\ ev' = [ev EXCEPT !.calls = Append(@, call),
                            !.res = IF threw THEN "threw" ELSE IF last THEN "ok" ELSE "",
                            !.scanned = IF scans THEN SeenAt(target) ELSE @,
                            !.opened = IF call = "backing" THEN SeenAt(target) ELSE @]
        /\ target' = IF call = "cleanup" THEN TryCleanupStaleMount(target, ev.canClear)
                     ELSE IF last THEN "fuse" ELSE target
        /\ stagingExists' = (stagingExists \/ call = "staging")
        /\ m_stagingDir' = IF call = "staging" THEN m_overwriteDir ELSE m_stagingDir
        /\ m_baseFileCache' = IF scans THEN ScanDataDir(SeenFS(target)) ELSE m_baseFileCache
        /\ m_cachedDataDirPath' = IF scans THEN "d1" ELSE m_cachedDataDirPath
        /\ m_backingFd' = (m_backingFd \/ call = "backing")
        /\ IF last
           THEN /\ tree' = MountTree(m_baseFileCache, m_lastMods, modFS, overwriteFS,
                                     m_extraVfsFiles)
                /\ handles' = NoHandles
                /\ unlinked' = {}
                /\ inodes' = NewInodeTable
                /\ m_session' = TRUE
                /\ m_mounted' = TRUE
                /\ g_fuseMountPoint' = TRUE
           ELSE UNCHANGED <<tree, handles, unlinked, inodes, m_session, m_mounted,
                            g_fuseMountPoint>>
  /\ UNCHANGED <<hp, wire, side, mapping, ext, flatpak, baseFS, modFS, overwriteFS,
                 stagingFS, m_lastMods, m_extraVfsFiles, m_overwriteDir, m_helperProcess,
                 helperVars, newTree, lockW, hdl, ops>>

\* the helper is started on a config: main() up to readConfig
HelperMainBegin(mods, canClear) ==
  /\ mpc = "idle" /\ ~m_mounted /\ ~m_helperProcess
  /\ hp.pc \in {"none", "exited", "killed"}
  /\ cfgFile' = [mods |-> mods, extras |-> <<>>]
  /\ h_config' = cfgFile'
  /\ hp' = [NoHelper EXCEPT !.pc = "main"]
  /\ ev' = StartEvent("main", canClear)
  /\ UNCHANGED <<inodes, wire, side, mapping, ext, target, flatpak, diskVars, m_mounted,
                 m_lastMods, m_extraVfsFiles, m_baseFileCache, m_cachedDataDirPath,
                 m_backingFd, m_session, m_stagingDir, m_overwriteDir, m_helperProcess,
                 g_fuseMountPoint, h_baseFileCache, tree, newTree, lockW, mpc, hdl,
                 handles, ops, unlinked>>

\* the next call of the helper's main()
HelperMainCall ==
  /\ hp.pc = "main" /\ ev.op = "main"
  /\ LET call == HelperMainOrder[Len(ev.calls) + 1]
         threw == call = "exists" /\ target = "stale"
         last == call = "session"
     IN /\ ev' = [ev EXCEPT !.calls = Append(@, call),
                            !.res = IF threw THEN "threw" ELSE IF last THEN "ok" ELSE "",
                            !.scanned = IF call = "scan" THEN SeenAt(target) ELSE @,
                            !.opened = IF call = "backing" THEN SeenAt(target) ELSE @]
        /\ target' = IF call = "cleanup" THEN TryCleanupStaleMount(target, ev.canClear)
                     ELSE IF last THEN "fuse" ELSE target
        /\ stagingExists' = (stagingExists \/ call = "staging")
        /\ h_baseFileCache' = IF call = "scan" THEN ScanDataDir(SeenFS(target))
                              ELSE h_baseFileCache
        /\ tree' = IF last THEN MountTree(h_baseFileCache, h_config.mods, modFS,
                                          overwriteFS, h_config.extras)
                   ELSE tree
        /\ hp' = IF threw
                 THEN [hp EXCEPT !.pc = "exited", !.exit = "nonzero", !.fail = "nodatadir"]
                 ELSE IF last
                 THEN [hp EXCEPT !.pc = "loop", !.loop = TRUE, !.session = TRUE,
                                 !.kmount = TRUE, !.pipe = Append(@, "mounted"),
                                 !.start = <<"mounted">>]
                 ELSE [hp EXCEPT !.backingFd = @ \/ call = "backing"]
  /\ UNCHANGED <<inodes, wire, side, mapping, ext, flatpak, baseFS, modFS, overwriteFS,
                 stagingFS, m_mounted, m_lastMods, m_extraVfsFiles, m_baseFileCache,
                 m_cachedDataDirPath, m_backingFd, m_session, m_stagingDir, m_overwriteDir,
                 m_helperProcess, g_fuseMountPoint, cfgFile, h_config, newTree, lockW, mpc,
                 hdl, handles, ops, unlinked>>

\* a mount in process or a start of the helper, call by call, on a target
\* that is clean, dead, or holds a mount left behind
NextStale ==
  \/ \E mods \in {<<>>, <<2>>}, canClear \in BOOLEAN : MountBegin(mods, canClear)
  \/ MountCall
  \/ \E mods \in {<<>>, <<2>>}, canClear \in BOOLEAN : HelperMainBegin(mods, canClear)
  \/ HelperMainCall

SpecStale ==
  /\ \E tgt \in {"clean", "stale", "listed"}, fp \in BOOLEAN :
       InitWith(BaseInit, MkFS("O", "none", "none"), EmptyFS, FALSE, tgt, fp, NoExternal)
  /\ [][NextStale]_vars

\* C37 as stated: in a mount in process and in a start of the helper the
\* scan of the base directory and the open of the backing handle come after
\* the stale-mount cleanup, and when the cleanup can clear what is at the
\* target, neither reaches the overlay left behind
C37_CleanupBeforeScan ==
  ev.op \in {"mount", "main"} =>
    /\ \A i \in 1..Len(ev.calls) :
         ev.calls[i] \in {"scan", "backing"}
           => \E j \in 1..(i - 1) : ev.calls[j] = "cleanup"
    /\ ev.canClear => (ev.scanned # "overlay" /\ ev.opened # "overlay")


(* --------------- the mounted flag over whole call sequences ------------ *)

\* bool isMounted() const
IsMounted == m_mounted

\* mount() entered on a mounted connector with `if (m_mounted)` left out
MountEnterNoUnmount(io) ==
  /\ mpc = "idle" /\ m_mounted
  /\ hdl.pc = "idle"
  /\ ev' = Event("mount", "entered")
  /\ UNCHANGED <<coreVarsButEv, hp, ext, inodes, wire, side, mapping>>

\* mount() entered on a mounted connector: `if (m_mounted) { unmount(); }`
\* runs the whole of unmount() before anything else of mount()
MountEnter(io) ==
  /\ mpc = "idle" /\ m_mounted
  /\ hdl.pc = "idle"
  /\ LET r == FlushStaging(stagingExists /\ (m_helperProcess \/ m_stagingDir # ""),
                           stagingFS, overwriteFS, io)
         w == FlushWrites(baseFS, r)
     IN /\ baseFS' = w.base
        /\ overwriteFS' = w.ov
        /\ stagingFS' = w.st
        /\ stagingExists' = (stagingExists /\ ~(m_helperProcess \/ m_stagingDir # ""))
                             \/ r.staging.exists
  /\ handles' = NoHandles
  /\ tree' = EmptyTree
  /\ m_session' = FALSE
  /\ m_backingFd' = FALSE
  /\ m_helperProcess' = FALSE
  /\ m_mounted' = FALSE
  /\ g_fuseMountPoint' = SetFuseMountPointForCrashCleanup("nullptr")
  /\ target' = "clean"
  /\ ev' = FlushEvent("mount", "entered",
                      stagingExists /\ (m_helperProcess \/ m_stagingDir # ""), io)
  /\ ext' = CleanupExternalMappings(ext)
  /\ inodes' = NewInodeTable
  /\ UNCHANGED <<hp, wire, side, mapping, flatpak, modFS, m_lastMods, m_extraVfsFiles,
                 m_baseFileCache, m_cachedDataDirPath, m_stagingDir, m_overwriteDir,
                 helperVars, newTree, lockW, mpc, hdl, ops, unlinked>>

\* rebuild() on a connector that is not mounted: `if (!m_mounted) return;`
RebuildNotMounted ==
  /\ mpc = "idle" /\ ~IsMounted
  /\ ev' = Event("rebuild", "notmounted")
  /\ UNCHANGED <<coreVarsButEv, hp, ext, inodes, wire, side, mapping>>

\* flushStagingLive() on a connector that is not mounted
FlushStagingLiveNotMounted ==
  /\ mpc = "idle" /\ ~IsMounted
  /\ ev' = Event("flush", "notmounted")
  /\ UNCHANGED <<coreVarsButEv, hp, ext, inodes, wire, side, mapping>>

NextMounted ==
  \/ \E m \in Mappings, cleared \in BOOLEAN : MountNoDataDir(m.mods, m.extras, cleared)
  \/ \E m \in Mappings, fail \in MountFailures, cleared \in BOOLEAN :
       MountInProcess(m.mods, m.extras, fail, cleared)
  \/ \E m \in Mappings, fail \in HelperFailures, cleared \in BOOLEAN :
       MountViaHelper(m.mods, m.extras, fail, cleared)
  \/ \E io \in IoChoices(stagingFS) : MountEnter(io)
  \/ \E io \in IoChoices(stagingFS) : Unmount(io)
  \/ UnmountNotMounted
  \/ \E m \in Mappings : RebuildBuild(m.mods, m.extras)
  \/ RebuildLock
  \/ RebuildSwap
  \/ RebuildNotMounted
  \/ \E io \in IoChoices(stagingFS) : LiveFlushBuild(io)
  \/ LiveFlushLock
  \/ LiveFlushSwap
  \/ FlushStagingLiveNotMounted

SpecMounted == Init /\ [][NextMounted]_vars

\* C38: before and after every step of mount, rebuild, flushStagingLive and
\* unmount, failed mounts included, isMounted() is true exactly when one of
\* the FUSE session of this process and the helper process exists, and the
\* two never exist together; a mount() that finds the connector mounted has
\* unmounted it, session and helper gone, before it does anything else, and
\* every mount body starts with neither; rebuild() and flushStagingLive() on
\* a connector that is not mounted leave every field and the disk as they were
C38_MountedInvariant ==
  [][/\ IsMounted <=> (m_session # m_helperProcess)
     /\ ~(m_session /\ m_helperProcess)
     /\ IsMounted' <=> (m_session' # m_helperProcess')
     /\ ~(m_session' /\ m_helperProcess')
     /\ (ev'.op = "mount" /\ ev'.res = "entered")
          => (~IsMounted' /\ ~m_session' /\ ~m_helperProcess')
     /\ (ev' # ev /\ ev'.op = "mount" /\ ev'.res \in {"ok", "threw"})
          => (~IsMounted /\ ~m_session /\ ~m_helperProcess)
     /\ (ev' # ev /\ ev'.op \in {"rebuild", "flush"} /\ ev'.res = "notmounted")
          => UNCHANGED <<coreVarsButEv, ext, inodes>>]_vars

\* a mount() on a connector mounted through the helper has just unmounted it
C38_Witness ==
  /\ ev.op = "mount" /\ ev.res = "entered"
  /\ flatpak /\ ~m_mounted /\ ~m_helperProcess /\ ~m_session
  /\ m_lastMods # <<>>


(* ------------- one INI path, file-system call by call ------------------ *)

\* the file-system calls the INI code makes on one prefix INI path: the live
\* file, its .mo2linux_backup and the profile's INI hold "none", "orig" (what
\* the prefix INI held before the first deploy) or "profile"
IniCalls == {"rm_live", "mv_backup_live", "mv_live_backup", "cp_prof_live",
             "rm_prof", "cp_live_prof"}

\* QFile::remove, QFile::rename (fails when the new name exists) and
\* QFile::copy (fails when the destination exists)
IniCall(f, call) ==
  IF call = "rm_live" THEN [ok |-> TRUE, fs |-> [f EXCEPT !.live = "none"]]
  ELSE IF call = "rm_prof" THEN [ok |-> TRUE, fs |-> [f EXCEPT !.prof = "none"]]
  ELSE IF call = "mv_backup_live"
    THEN IF f.live # "none" \/ f.backup = "none" THEN [ok |-> FALSE, fs |-> f]
         ELSE [ok |-> TRUE, fs |-> [f EXCEPT !.live = f.backup, !.backup = "none"]]
  ELSE IF call = "mv_live_backup"
    THEN IF f.backup # "none" \/ f.live = "none" THEN [ok |-> FALSE, fs |-> f]
         ELSE [ok |-> TRUE, fs |-> [f EXCEPT !.backup = f.live, !.live = "none"]]
  ELSE IF call = "cp_prof_live"
    THEN IF f.live # "none" \/ f.prof = "none" THEN [ok |-> FALSE, fs |-> f]
         ELSE [ok |-> TRUE, fs |-> [f EXCEPT !.live = f.prof]]
  ELSE IF f.prof # "none" \/ f.live = "none" THEN [ok |-> FALSE, fs |-> f]
       ELSE [ok |-> TRUE, fs |-> [f EXCEPT !.prof = f.live]]

RECURSIVE IniRun(_, _)
\* the files after a sequence of calls that all succeed
IniRun(f, calls) ==
  IF calls = <<>> THEN f ELSE IniRun(IniCall(f, Head(calls)).fs, Tail(calls))

\* restoreBackedUpIni(liveIni, backupIni)
RestoreBackedUpIniCalls(f) ==
  IF f.backup = "none" THEN <<>>
  ELSE (IF f.live # "none" THEN <<"rm_live">> ELSE <<>>) \o <<"mv_backup_live">>

\* copyFileWithParents(source, destination) onto the live file
CopyToLiveCalls(f) ==
  (IF f.live # "none" THEN <<"rm_live">> ELSE <<>>) \o <<"cp_prof_live">>

\* deployProfileIni: each variant found has its stale backup restored and is
\* then renamed to its backup; a target that was not found has its stale
\* backup restored only; then the profile's file is copied over the target
DeployProfileIniCalls(f) ==
  IF f.prof = "none" THEN <<>>
  ELSE LET found == f.live # "none"
           c1 == RestoreBackedUpIniCalls(f)
           f1 == IniRun(f, c1)
           c2 == IF found /\ f1.live # "none" THEN <<"mv_live_backup">> ELSE <<>>
       IN c1 \o c2 \o CopyToLiveCalls(IniRun(f1, c2))

\* restoreStaleBackups on the one backup file it can find
RestoreStaleBackupsCalls(f) == RestoreBackedUpIniCalls(f)

\* syncProfileInisBack for the one mapping: without a live file the backup is
\* restored; else the live file is copied to the profile, removed, and the
\* backup, if there is one, restored
SyncProfileInisBackCalls(f) ==
  IF f.live = "none" THEN RestoreBackedUpIniCalls(f)
  ELSE LET c1 == (IF f.prof # "none" THEN <<"rm_prof">> ELSE <<>>) \o <<"cp_live_prof">>
           c2 == <<"rm_live">>
       IN c1 \o c2 \o RestoreBackedUpIniCalls(IniRun(f, c1 \o c2))

\* the calls of an operation of the INI code
IniOpCalls(op, f) ==
  IF op = "deploy" THEN DeployProfileIniCalls(f)
  ELSE IF op = "stale" THEN RestoreStaleBackupsCalls(f)
  ELSE SyncProfileInisBackCalls(f)

\* a prefix whose INI holds the user's settings, or has no INI yet; before
\* is what the live file holds when the first deploy begins
OpenIniPath(orig) ==
  /\ side.pc = "none"
  /\ side' = [pc |-> "ini",
              fs |-> [live |-> orig, backup |-> "none", prof |-> "profile"],
              before |-> "none", op |-> "none", res |-> "none", todo |-> <<>>,
              deployed |-> FALSE]
  /\ UNCHANGED <<coreVars, hp, ext, inodes, wire, mapping>>

\* deployProfileIni, restoreStaleBackups or syncProfileInisBack is entered
IniBegin(op) ==
  /\ side.pc = "ini" /\ side.res # "running"
  /\ LET calls == IniOpCalls(op, side.fs)
     IN side' = [side EXCEPT
                   !.op = op, !.todo = calls,
                   !.res = IF calls # <<>> THEN "running"
                           ELSE IF op = "deploy" /\ side.fs.prof = "none" THEN "failed"
                           ELSE "ok",
                   !.before = IF op = "deploy" /\ calls # <<>> /\ ~side.deployed
                              THEN side.fs.live ELSE @,
                   !.deployed = @ \/ (op = "deploy" /\ calls # <<>>)]
  /\ UNCHANGED <<coreVars, hp, ext, inodes, wire, mapping>>

\* the next file-system call of the operation; a call that fails ends it
IniStep ==
  /\ side.pc = "ini" /\ side.res = "running"
  /\ LET r == IniCall(side.fs, Head(side.todo))
     IN side' = [side EXCEPT
                   !.fs = r.fs,
                   !.todo = IF r.ok THEN Tail(side.todo) ELSE <<>>,
                   !.res = IF ~r.ok THEN "failed"
                           ELSE IF Tail(side.todo) = <<>> THEN "ok" ELSE "running"]
  /\ UNCHANGED <<coreVars, hp, ext, inodes, wire, mapping>>

\* the process dies between two calls of the operation
IniCrash ==
  /\ side.pc = "ini" /\ side.res = "running"
  /\ side' = [side EXCEPT !.todo = <<>>, !.res = "crashed"]
  /\ UNCHANGED <<coreVars, hp, ext, inodes, wire, mapping>>

NextIni ==
  \/ \E orig \in {"orig", "none"} : OpenIniPath(orig)
  \/ \E op \in {"deploy", "stale", "sync"} : IniBegin(op)
  \/ IniStep
  \/ IniCrash

SpecIni == InitClean /\ [][NextIni]_vars

\* C39: once a deploy has touched a prefix INI that existed, what that INI
\* held is at every moment, interrupted operations included, the content of
\* the live file or of its .mo2linux_backup, and when syncProfileInisBack or
\* restoreStaleBackups has run to its end it is the content of the live file
C39_OriginalNeverLost ==
  (side.pc = "ini" /\ side.before = "orig" /\ side.deployed) =>
     /\ side.fs.live = "orig" \/ side.fs.backup = "orig"
     /\ (side.res = "ok" /\ side.op \in {"stale", "sync"}) => side.fs.live = "orig"


(* ------------------ syncSavesBack on one game root --------------------- *)

\* save files of a directory, and what a directory of the game root is: not
\* there, or there with some of the save files in it
SaveFiles == {"s1", "s2"}

SaveDirStates == {"none", "dir", "dir_s1", "dir_s2", "dir_s1_s2"}

\* the files QDirIterator(sourceRoot, QDir::Files, Subdirectories) yields
FilesOf(d) ==
  IF d = "dir_s1" THEN {"s1"}
  ELSE IF d = "dir_s2" THEN {"s2"}
  ELSE IF d = "dir_s1_s2" THEN {"s1", "s2"}
  ELSE {}

\* a game root at the end of a session: the live save directories, and the
\* backups of the global saves a deploy may have made
OpenGameRoot(u, l, bu, bl) ==
  /\ side.pc = "none"
  /\ LET f == [n \in PrefixNames |->
                 IF n = "Saves" THEN u
                 ELSE IF n = "saves" THEN l
                 ELSE IF n = ".mo2linux_backup_Saves" THEN bu
                 ELSE IF n = ".mo2linux_backup_saves" THEN bl
                 ELSE "none"]
     IN side' = [pc |-> "saves", fs |-> f, before |-> f, copied |-> {},
                 restoreRan |-> FALSE, ret |-> "none"]
  /\ UNCHANGED <<coreVars, hp, ext, inodes, wire, mapping>>

\* syncSavesBack(profileSaveDir, gameName, "Saves"); mk is the outcome of
\* mkpath(profileSaveDir), done the files copyTreeContents copied before it
\* returned, all of them when no copy failed
SyncSavesBack(mk, done) ==
  /\ side.pc = "saves" /\ side.ret = "none"
  /\ LET f == side.fs
         sourceSavesDir == IF f["Saves"] # "none" THEN "Saves"
                           ELSE IF f["saves"] # "none" THEN "saves" ELSE "none"
     IN IF sourceSavesDir = "none"
        THEN /\ mk /\ done = {}
             /\ side' = [side EXCEPT !.ret = "true"]
        ELSE IF ~mk
        THEN /\ done = {}
             /\ side' = [side EXCEPT !.ret = "false"]
        ELSE /\ done \subseteq FilesOf(f[sourceSavesDir])
             /\ LET copied == done = FilesOf(f[sourceSavesDir])
                    r == RestoreBackedUpSaves(f, "Saves", "saves")
                IN side' = [side EXCEPT
                              !.copied = {<<sourceSavesDir, s>> : s \in done},
                              !.fs = r.fs,
                              !.restoreRan = TRUE,
                              !.ret = IF ~r.ok THEN "false"
                                      ELSE IF copied THEN "true" ELSE "false"]
  /\ UNCHANGED <<coreVars, hp, ext, inodes, wire, mapping>>

NextSaves ==
  \/ \E u \in SaveDirStates, l \in SaveDirStates, bu \in {"none", "dir_s1"},
        bl \in {"none", "dir_s2"} : OpenGameRoot(u, l, bu, bl)
  \/ \E mk \in BOOLEAN, done \in SUBSET SaveFiles : SyncSavesBack(mk, done)

SpecSaves == InitClean /\ [][NextSaves]_vars

\* C40: after syncSavesBack every file of a live save directory that is no
\* longer in it was copied to the profile's save directory; when a copy
\* failed, or when there is no backup of the global saves, both live
\* directories are as they were; and the result is true only when every
\* file of the live directories was copied and no backup is left
C40_NoUncopiedSaveDeleted ==
  (side.pc = "saves" /\ side.ret # "none") =>
     LET live == {"Saves", "saves"}
         backups == {".mo2linux_backup_Saves", ".mo2linux_backup_saves"}
         all == {<<d, s>> : d \in live, s \in SaveFiles}
         had == {x \in all : x[2] \in FilesOf(side.before[x[1]])}
         deleted == IF side.restoreRan THEN had ELSE {}
     IN /\ deleted \subseteq side.copied
        /\ (side.ret = "false" \/ \A b \in backups : side.before[b] = "none")
             => \A d \in live : side.fs[d] = side.before[d]
        /\ side.ret = "true"
             => (had \subseteq side.copied /\ \A b \in backups : side.fs[b] = "none")

====
